---- MODULE Spec2Model ----
(***************************************************************************)
(* A model of the transactional ledger of beeline-server                   *)
(* (src/src/lib/transactions/index.js).                                    *)
(*                                                                         *)
(* Amounts are integers counted in millionths of a dollar, so that the     *)
(* tolerances the code compares against (1e-6, 1e-4, 1e-3) are the         *)
(* integers 1, 100 and 1000 and a cent is 10000.  Only the amounts handed  *)
(* to validateTxn are ten times finer.                                     *)
(*                                                                         *)
(* A JavaScript value that may be null or undefined is a sequence of       *)
(* length at most one: << >> is null/undefined, <<v>> is the value v.      *)
(***************************************************************************)
EXTENDS Integers, Sequences, FiniteSets, TLC

VARIABLES
    val,          \* validateTxn: the transaction handed in and the outcome
    win,          \* checkStopsAndBookingWindow: the arguments and the outcome
    tickets,      \* table Ticket: a sequence of rows, the id is the index
    routePasses,  \* table RoutePass: a sequence of rows, the id is the index
    txns,         \* tables Transaction + TransactionItem, the id is the index
    last,         \* the last workflow call: what was asked and what came back
    fn,           \* a call of one of the other functions: arguments and outcome
    payments,     \* table Payment: the row of a transaction's payment item
    charges,      \* the payment gateway: the charges it has recorded, by key
    env           \* process.env.TEST_IDEMPOTENCY, set when the process starts

vars == <<val, win, tickets, routePasses, txns, last, fn, payments, charges, env>>

----------------------------------------------------------------------------
(* Values                                                                  *)

None == << >>

Some(v) == <<v>>

\* JavaScript truthiness of an optional number: null, undefined and 0 are falsy.
Truthy(o) == o # None /\ o[1] # 0

Abs(x) == IF x < 0 THEN -x ELSE x

\* dollars and cents as an amount
Amt(d, c) == d * 1000000 + c * 10000

RECURSIVE SumSeq(_)
SumSeq(s) == IF s = << >> THEN 0 ELSE Head(s) + SumSeq(Tail(s))

RECURSIVE MinSeq(_)
MinSeq(s) ==
    IF Len(s) = 1 THEN Head(s)
    ELSE LET m == MinSeq(Tail(s)) IN IF Head(s) < m THEN Head(s) ELSE m

SeqMap(Op(_), s) == [i \in 1..Len(s) |-> Op(s[i])]

\* Body applied to the value of e, e being evaluated once
Bind(e, Body(_)) == CHOOSE y \in {Body(x) : x \in {e}} : TRUE

RECURSIVE SeqsUpTo(_, _)
SeqsUpTo(S, n) ==
    IF n = 0 THEN {<< >>}
    ELSE LET shorter == SeqsUpTo(S, n - 1)
         IN  shorter \cup {Append(s, x) : s \in {t \in shorter : Len(t) = n - 1}, x \in S}

----------------------------------------------------------------------------
(* validateTxn                                                             *)

\* the tolerance 0.000001 of validateTxn.  The amounts handed to validateTxn
\* are in ten-millionths, so that amounts under the tolerance exist.
ValidateTolerance == 10

\* most items of a transaction handed to validateTxn
MaxItems == 3

\* the callback of _.sumBy: debit ? debit : credit ? -credit : 0
SignedAmount(item) ==
    IF Truthy(item.debit) THEN item.debit[1]
    ELSE IF Truthy(item.credit) THEN -item.credit[1]
    ELSE 0

\* validateTxn without its tolerance: any non-zero sum throws
validateTxnStrict(txn) ==
    IF txn.transactionItems = None
        THEN [status |-> "AssertionError", value |-> None]
    ELSE LET items == txn.transactionItems[1]
             sumOfDebit == SumSeq(SeqMap(SignedAmount, items))
         IN  IF \E i \in 1..Len(items) : ~Truthy(items[i].itemId)
                 THEN [status |-> "AssertionError", value |-> None]
             ELSE IF Abs(sumOfDebit) > 0
                 THEN [status |-> "Error", value |-> None]
             ELSE [status |-> "ok", value |-> Some(txn)]

\* validateTxn(txn): the outcome, and the object returned when there is one
validateTxn(txn) ==
    IF txn.transactionItems = None
        THEN [status |-> "AssertionError", value |-> None]
    ELSE LET items == txn.transactionItems[1]
             sumOfDebit == SumSeq(SeqMap(SignedAmount, items))
         IN  IF \E i \in 1..Len(items) : ~Truthy(items[i].itemId)
                 THEN [status |-> "AssertionError", value |-> None]
             ELSE IF Abs(sumOfDebit) > ValidateTolerance
                 THEN [status |-> "Error", value |-> None]
             ELSE [status |-> "ok", value |-> Some(txn)]

\* no amount, 0.0000009, 0.0000011 and 5.00
ValAmounts == {None, Some(9), Some(11), Some(10 * Amt(5, 0))}

ValItems == [itemId : {None, Some(7)}, debit : ValAmounts, credit : {None, Some(10 * Amt(5, 0))}]

ValTxns ==
    {[transactionItems |-> None]}
        \cup {[transactionItems |-> Some(s)] : s \in SeqsUpTo(ValItems, MaxItems)}

ValIdle == [txn |-> [transactionItems |-> None], res |-> [status |-> "idle", value |-> None]]

WinIdle == [phase |-> "idle"]

LastIdle == [op |-> "none"]

FnIdle == [name |-> "none"]

\* nothing of the other functions, the Payment table or the gateway is in use
OthersIdle == fn = FnIdle /\ payments = << >> /\ charges = << >> /\ env = << >>

InitValidate ==
    /\ val \in {[txn |-> t, res |-> [status |-> "pending", value |-> None]] : t \in ValTxns}
    /\ win = WinIdle
    /\ tickets = << >>
    /\ routePasses = << >>
    /\ txns = << >>
    /\ last = LastIdle
    /\ OthersIdle

ValidateTxn ==
    /\ val.res.status = "pending"
    /\ val' = [val EXCEPT !.res = validateTxn(val.txn)]
    /\ UNCHANGED <<win, tickets, routePasses, txns, last, fn, payments, charges, env>>

NextValidate == ValidateTxn

SpecValidate == InitValidate /\ [][NextValidate]_vars

\* the true totals of a transaction's items, column by column
DebitOf(item) == IF item.debit = None THEN 0 ELSE item.debit[1]

CreditOf(item) == IF item.credit = None THEN 0 ELSE item.credit[1]

TotalDebit(items) == SumSeq(SeqMap(DebitOf, items))

TotalCredit(items) == SumSeq(SeqMap(CreditOf, items))

Balanced(items) == Abs(TotalDebit(items) - TotalCredit(items)) <= ValidateTolerance

ValDone == val.res.status \notin {"pending", "idle"}

ValItemsOf == IF val.txn.transactionItems = None THEN << >> ELSE val.txn.transactionItems[1]

\* every item has an itemId and carries a debit or a credit, never both
ValWellFormed ==
    /\ val.txn.transactionItems # None
    /\ \A i \in 1..Len(ValItemsOf) :
          /\ Truthy(ValItemsOf[i].itemId)
          /\ ~(Truthy(ValItemsOf[i].debit) /\ Truthy(ValItemsOf[i].credit))

\* C1 as stated: every transaction validateTxn accepts has a debit total and
\* a credit total within 1e-6 of each other; validateTxn raises an error for
\* every transaction whose totals differ by more, and returns that same
\* transaction object for every other.
C1_AsStated ==
    (ValDone /\ val.txn.transactionItems # None) =>
        IF Balanced(ValItemsOf)
            THEN val.res.status = "ok" /\ val.res.value = Some(val.txn)
            ELSE val.res.status # "ok"

\* C1 amended: validateTxn accepts only transactions all of whose items have
\* an itemId; among the transactions whose items have an itemId and carry a
\* debit or a credit but not both, it accepts exactly those whose totals are
\* within 1e-6 of each other, returns that same object for them, and raises
\* an error for the others.
C1_Amended ==
    ValDone =>
        /\ val.res.status = "ok" =>
              /\ val.res.value = Some(val.txn)
              /\ \A i \in 1..Len(ValItemsOf) : Truthy(ValItemsOf[i].itemId)
        /\ ValWellFormed =>
              IF Balanced(ValItemsOf)
                  THEN val.res.status = "ok" /\ val.res.value = Some(val.txn)
                  ELSE val.res.status = "Error"

\* a transaction of three items with 5.00 on each side and totals 0.0000009
\* apart was accepted
C1_Witness ==
    /\ ValDone
    /\ ValWellFormed
    /\ val.res.status = "ok"
    /\ Len(ValItemsOf) = 3
    /\ TotalDebit(ValItemsOf) - TotalCredit(ValItemsOf) = 9
    /\ TotalCredit(ValItemsOf) = 10 * Amt(5, 0)

----------------------------------------------------------------------------
(* checkStopsAndBookingWindow                                              *)

\* most stops of a trip handed to checkStopsAndBookingWindow
MaxStops == 3

\* Joi.validate(dbTrip.bookingInfo || {}, {windowType: valid(stop, firstStop)
\* .default(stop), windowSize: number().default(0)}): a missing key takes its
\* default, any invalid key makes the whole validation fail.
JoiBookingInfo(bookingInfo) ==
    LET given == IF bookingInfo = None
                    THEN [windowType |-> None, windowSize |-> None]
                    ELSE bookingInfo[1]
        typeOk == given.windowType = None \/ given.windowType[1] \in {"stop", "firstStop"}
        sizeOk == given.windowSize = None \/ given.windowSize[1].isNumber
    IN  [error |-> ~(typeOk /\ sizeOk),
         windowType |-> IF given.windowType = None THEN "stop" ELSE given.windowType[1],
         windowSize |-> IF given.windowSize = None \/ ~sizeOk
                            THEN 0 ELSE given.windowSize[1].n]

\* tripStops.findIndex(ts => ts.id === stopId), counted from 1; 0 is "not found"
FindStopIndex(tripStops, stopId) ==
    IF \E i \in 1..Len(tripStops) : tripStops[i].id = stopId
        THEN CHOOSE i \in 1..Len(tripStops) :
                /\ tripStops[i].id = stopId
                /\ \A j \in 1..(i - 1) : tripStops[j].id # stopId
        ELSE 0

StopTime(ts) == ts.time

\* the cut-off of the booking window, for stops that were found
CutOff(dbTrip, boardStopIndex, alightStopIndex) ==
    LET validated == JoiBookingInfo(dbTrip.bookingInfo)
        windowType == IF validated.error THEN "stop" ELSE validated.windowType
        windowSize == IF validated.error THEN 0 ELSE validated.windowSize
    IN  IF windowType = "firstStop"
            THEN MinSeq(SeqMap(StopTime, dbTrip.tripStops)) + windowSize
            ELSE MinSeq(<<dbTrip.tripStops[boardStopIndex].time + windowSize,
                          dbTrip.tripStops[alightStopIndex].time + windowSize>>)

Passed == [status |-> "ok", error |-> "", ticketId |-> 0]

Thrown(kind, what) == [status |-> kind, error |-> what, ticketId |-> 0]

\* the booking window closing at the cut-off itself: now >= cutOff throws
checkStopsAndBookingWindowClosedAtCutOff(checkBookingWindow, now, dbTrip, rqTrip) ==
    IF dbTrip = None
        THEN Thrown("TypeError", "dbTrip is undefined")
    ELSE LET trip == dbTrip[1]
             boardStopIndex == FindStopIndex(trip.tripStops, rqTrip[1].boardStopId)
             alightStopIndex == FindStopIndex(trip.tripStops, rqTrip[1].alightStopId)
         IN  IF boardStopIndex = 0 \/ alightStopIndex = 0
                 THEN Thrown("TransactionError", "Invalid stop given for trip")
             ELSE IF ~checkBookingWindow
                 THEN Passed
             ELSE IF now >= CutOff(trip, boardStopIndex, alightStopIndex)
                 THEN Thrown("TransactionError", "You may not book this trip later than")
             ELSE Passed

\* checkStopsAndBookingWindow(checkBookingWindow, now)(dbTrip, rqTrip): what the
\* returned function does with its two arguments, either of which may be
\* undefined
checkStopsAndBookingWindow(checkBookingWindow, now, dbTrip, rqTrip) ==
    IF dbTrip = None
        THEN Thrown("TypeError", "dbTrip is undefined")
    ELSE LET trip == dbTrip[1]
             boardStopIndex == FindStopIndex(trip.tripStops, rqTrip[1].boardStopId)
             alightStopIndex == FindStopIndex(trip.tripStops, rqTrip[1].alightStopId)
         IN  IF boardStopIndex = 0 \/ alightStopIndex = 0
                 THEN Thrown("TransactionError", "Invalid stop given for trip")
             ELSE IF ~checkBookingWindow
                 THEN Passed
             ELSE IF now > CutOff(trip, boardStopIndex, alightStopIndex)
                 THEN Thrown("TransactionError", "You may not book this trip later than")
             ELSE Passed

WinStopTimes == {10, 20}

WinNow == {5, 6, 10, 11, 15, 16, 20, 21, 25, 26}

Number(n) == [isNumber |-> TRUE, n |-> n]

NotANumber == [isNumber |-> FALSE, n |-> 0]

WinBookingInfos ==
    {None} \cup
    {Some([windowType |-> t, windowSize |-> w]) :
        t \in {None, Some("stop"), Some("firstStop"), Some("lastStop")},
        w \in {None, Some(Number(0)), Some(Number(5)), Some(Number(-5)), Some(NotANumber)}}

\* trips of 2..MaxStops stops, the stops' ids being their positions
WinTrips ==
    {[tripStops |-> [i \in 1..n |-> [id |-> i, time |-> times[i]]], bookingInfo |-> b] :
        n \in 2..MaxStops, times \in [1..MaxStops -> WinStopTimes], b \in WinBookingInfos}

WinRequests ==
    [boardStopId : 1..(MaxStops + 1), alightStopId : 1..(MaxStops + 1)]

InitWindow ==
    /\ win \in {[phase |-> "called", checkBookingWindow |-> c, now |-> n,
                 dbTrip |-> t, rqTrip |-> r, res |-> Passed] :
                   c \in BOOLEAN, n \in WinNow, t \in WinTrips, r \in WinRequests}
    /\ val = ValIdle
    /\ tickets = << >>
    /\ routePasses = << >>
    /\ txns = << >>
    /\ last = LastIdle
    /\ OthersIdle

CheckStopsAndBookingWindow ==
    /\ win.phase = "called"
    /\ win' = [win EXCEPT
                 !.phase = "returned",
                 !.res = checkStopsAndBookingWindow(
                             win.checkBookingWindow, win.now,
                             Some(win.dbTrip), Some(win.rqTrip))]
    /\ UNCHANGED <<val, tickets, routePasses, txns, last, fn, payments, charges, env>>

NextWindow == CheckStopsAndBookingWindow

SpecWindow == InitWindow /\ [][NextWindow]_vars

WinStopsValid ==
    /\ \E i \in 1..Len(win.dbTrip.tripStops) : win.dbTrip.tripStops[i].id = win.rqTrip.boardStopId
    /\ \E i \in 1..Len(win.dbTrip.tripStops) : win.dbTrip.tripStops[i].id = win.rqTrip.alightStopId

WinTimeOf(stopId) ==
    (CHOOSE ts \in {win.dbTrip.tripStops[i] : i \in 1..Len(win.dbTrip.tripStops)} :
        ts.id = stopId).time

WinMin(S) == CHOOSE x \in S : \A y \in S : x <= y

\* the booking information the claim describes: firstStop or stop with a size
\* when both are given and valid, a type alone with size 0, a size alone with
\* type stop, and stop with size 0 when missing or invalid
WinEffective ==
    LET b == win.dbTrip.bookingInfo
        invalid == b # None /\
                   (\/ (b[1].windowType # None /\ b[1].windowType[1] \notin {"stop", "firstStop"})
                    \/ (b[1].windowSize # None /\ ~b[1].windowSize[1].isNumber))
    IN  IF b = None \/ invalid
            THEN [windowType |-> "stop", windowSize |-> 0]
            ELSE [windowType |-> IF b[1].windowType = None THEN "stop" ELSE b[1].windowType[1],
                  windowSize |-> IF b[1].windowSize = None THEN 0 ELSE b[1].windowSize[1].n]

WinCutOff ==
    IF WinEffective.windowType = "firstStop"
        THEN WinMin({win.dbTrip.tripStops[i].time : i \in 1..Len(win.dbTrip.tripStops)})
                 + WinEffective.windowSize
        ELSE WinMin({WinTimeOf(win.rqTrip.boardStopId), WinTimeOf(win.rqTrip.alightStopId)})
                 + WinEffective.windowSize

WinRejectedLate ==
    win.res.status = "TransactionError" /\ win.res.error = "You may not book this trip later than"

\* C7: with the booking-window check on, a request whose stops are stops of the
\* trip is rejected as too late exactly when now > cutoff, the cutoff being the
\* earliest stop time + windowSize for firstStop and min(board, alight time) +
\* windowSize for stop, with stop and 0 when bookingInfo is missing or invalid;
\* a booking at the cutoff itself is accepted.
C7_BookingWindow ==
    (win.phase = "returned" /\ win.checkBookingWindow /\ WinStopsValid) =>
        /\ WinRejectedLate <=> win.now > WinCutOff
        /\ win.res.status = "ok" <=> win.now <= WinCutOff

\* a firstStop booking made exactly at the cutoff, which is earlier than the
\* boarding time, is accepted
C7_Witness ==
    /\ win.phase = "returned"
    /\ win.checkBookingWindow
    /\ WinStopsValid
    /\ WinEffective.windowType = "firstStop"
    /\ WinEffective.windowSize = -5
    /\ WinTimeOf(win.rqTrip.boardStopId) = 20
    /\ WinTimeOf(win.rqTrip.alightStopId) = 20
    /\ win.now = WinCutOff
    /\ win.now = 5
    /\ win.res.status = "ok"

----------------------------------------------------------------------------
(* The data a ticket sale reads: trips, their stops and their routes       *)
(* (read-only during a workflow).  A Trip row carries isRunning, price,    *)
(* capacity, bookingInfo and its stops; the transport company is a column  *)
(* of the trip's Route, and a Trip row itself has none.                    *)

Stop(id, time) == [id |-> id, time |-> time]

Trips ==
    [t \in 1..4 |->
        CASE t = 1 -> [id |-> 1, isRunning |-> TRUE, price |-> Amt(5, 0), capacity |-> 1,
                       tripStops |-> <<Stop(11, 100), Stop(12, 200)>>,
                       bookingInfo |-> Some([windowType |-> Some("stop"),
                                             windowSize |-> Some(Number(0))]),
                       transportCompanyId |-> None,
                       route |-> [transportCompanyId |-> 1, tags |-> {"rp-a"}]]
          [] t = 2 -> [id |-> 2, isRunning |-> TRUE, price |-> Amt(10, 0), capacity |-> 2,
                       tripStops |-> <<Stop(21, 100), Stop(22, 200)>>,
                       bookingInfo |-> None,
                       transportCompanyId |-> None,
                       route |-> [transportCompanyId |-> 1, tags |-> {}]]
          [] t = 3 -> [id |-> 3, isRunning |-> TRUE, price |-> Amt(0, 30), capacity |-> 2,
                       tripStops |-> <<Stop(31, 100), Stop(32, 200)>>,
                       bookingInfo |-> Some([windowType |-> Some("firstStop"),
                                             windowSize |-> None]),
                       transportCompanyId |-> None,
                       route |-> [transportCompanyId |-> 2, tags |-> {}]]
          [] t = 4 -> [id |-> 4, isRunning |-> FALSE, price |-> Amt(5, 0), capacity |-> 2,
                       tripStops |-> <<Stop(41, 100), Stop(42, 200)>>,
                       bookingInfo |-> None,
                       transportCompanyId |-> None,
                       route |-> [transportCompanyId |-> 1, tags |-> {"rp-a"}]]]

\* the trip a stop belongs to
TripOfStop(stopId) ==
    IF \E t \in DOMAIN Trips : \E i \in 1..Len(Trips[t].tripStops) : Trips[t].tripStops[i].id = stopId
        THEN CHOOSE t \in DOMAIN Trips :
                \E i \in 1..Len(Trips[t].tripStops) : Trips[t].tripStops[i].id = stopId
        ELSE 0

\* the ids, in ascending order, of the rows of a table that satisfy Test
RECURSIVE IdsWhere(_, _, _)
IdsWhere(table, Test(_), from) ==
    IF from > Len(table) THEN << >>
    ELSE IF Test(table[from]) THEN <<from>> \o IdsWhere(table, Test, from + 1)
    ELSE IdsWhere(table, Test, from + 1)

\* Trip.seatsAvailable: the capacity less the tickets that hold a seat
seatsAvailable(tripId, ticketTable) ==
    Trips[tripId].capacity
        - Cardinality({i \in 1..Len(ticketTable) :
                          /\ ticketTable[i].tripId = tripId
                          /\ ticketTable[i].status \in {"valid", "pending"}})

\* dbTrip.tripStops.map(ts => ts.tickets), flattened: the ids of the tickets
\* boarding at each stop of the trip, stop after stop
RECURSIVE TicketIdsOfStops(_, _)
TicketIdsOfStops(tripStops, ticketTable) ==
    IF tripStops = << >> THEN << >>
    ELSE LET AtStop(row) == row.boardStopId = Head(tripStops).id
         IN  IdsWhere(ticketTable, AtStop, 1) \o TicketIdsOfStops(Tail(tripStops), ticketTable)

----------------------------------------------------------------------------
(* The checks of a ticket sale                                             *)

\* checkNoDuplicates()(dbTrip, rqTrip): the first ticket of the trip that is
\* valid or pending and belongs to the requesting user makes it throw
checkNoDuplicates(dbTrip, rqTrip, ticketTable) ==
    LET dbTripTickets == TicketIdsOfStops(dbTrip.tripStops, ticketTable)
        Existing(i) ==
            /\ ticketTable[dbTripTickets[i]].status \in {"valid", "pending"}
            /\ ticketTable[dbTripTickets[i]].userId = rqTrip.userId
    IN  IF \E i \in 1..Len(dbTripTickets) : Existing(i)
            THEN [status |-> "TransactionError", error |-> "User already has ticket for the trip",
                  ticketId |-> dbTripTickets[CHOOSE i \in 1..Len(dbTripTickets) :
                                   Existing(i) /\ \A j \in 1..(i - 1) : ~Existing(j)]]
            ELSE Passed

\* checkAvailability([db, m], tripIds, transaction)
checkAvailability(tripIds, ticketTable) ==
    IF \E t \in tripIds : seatsAvailable(t, ticketTable) < 0
        THEN Thrown("TransactionError", "Not enough seats available")
        ELSE Passed

\* the body of the loop of runOrderChecks for one order: with bookingWindow,
\* checkValidBookingWindow()(dbTrip, tripOrder); without, checkValidTripStop(),
\* which calls the checking function itself with no arguments
checkOrder(tripOrder, checkOptions, now, ticketTable) ==
    LET dbTrip == Trips[tripOrder.tripId]
        stops == IF checkOptions.bookingWindow
                    THEN checkStopsAndBookingWindow(TRUE, now, Some(dbTrip), Some(tripOrder))
                    ELSE checkStopsAndBookingWindow(FALSE, now, None, None)
    IN  IF stops.status # "ok" THEN stops
        ELSE IF checkOptions.noDuplicates
            THEN checkNoDuplicates(dbTrip, tripOrder, ticketTable)
        ELSE Passed

RECURSIVE checkOrders(_, _, _, _)
checkOrders(tripOrders, checkOptions, now, ticketTable) ==
    IF tripOrders = << >> THEN Passed
    ELSE LET first == checkOrder(Head(tripOrders), checkOptions, now, ticketTable)
         IN  IF first.status # "ok" THEN first
             ELSE checkOrders(Tail(tripOrders), checkOptions, now, ticketTable)

\* runOrderChecks that looks at the running state of the trips last
runOrderChecksRunningLast(tripIds, tripOrders, checkOptions, now, ticketTable) ==
    LET orders == checkOrders(tripOrders, checkOptions, now, ticketTable)
    IN  IF orders.status # "ok" THEN orders
        ELSE IF Cardinality({Trips[t].transportCompanyId : t \in tripIds}) # 1
            THEN Thrown("TransactionError", "Payment to multiple companies is not yet supported")
        ELSE IF \E t \in tripIds : ~Trips[t].isRunning
            THEN Thrown("TransactionError", "Trip has been cancelled")
        ELSE Passed

\* runOrderChecks(tb, checkOptions), tb giving tripsById (tripIds), lineItems
\* (tripOrders) and the tickets loaded with the trips
runOrderChecks(tripIds, tripOrders, checkOptions, now, ticketTable) ==
    IF \E t \in tripIds : ~Trips[t].isRunning
        THEN Thrown("TransactionError", "Trip has been cancelled")
    ELSE LET orders == checkOrders(tripOrders, checkOptions, now, ticketTable)
         IN  IF orders.status # "ok" THEN orders
             ELSE IF Cardinality({Trips[t].transportCompanyId : t \in tripIds}) # 1
                 THEN Thrown("TransactionError", "Payment to multiple companies is not yet supported")
             ELSE Passed

----------------------------------------------------------------------------
(* The transaction builder                                                 *)
(*                                                                         *)
(* A builder is a record: lineItems (the orders), tripIds (the keys of     *)
(* tripsById), items (one entry per ticket or route pass being sold, with  *)
(* its credit, its outstanding amount and its discountValue), and the line *)
(* items by type: discount, payment, transfer, account.                    *)

\* Payment.minTransactionChargeInCents()
MinTransactionChargeInCents == 50

\* roundToNearestCent
RoundToNearestCent(x) == ((x + 5000) \div 10000) * 10000

\* a transaction item; notes is notes.refundedTransactionId, when it has one
Line(itemType, itemId, debit, credit, companyId) ==
    [itemType |-> itemType, itemId |-> itemId, debit |-> debit, credit |-> credit,
     companyId |-> companyId, notes |-> None]

\* the item with notes: {refundedTransactionId}
Refunding(line, transactionId) == [line EXCEPT !.notes = Some(transactionId)]

EntryCredit(e) == e.credit

EntryOutstanding(e) == e.outstanding

LineDebit(l) == l.debit

LineCredit(l) == l.credit

SaleLine(e) == Line(e.itemType, e.itemId, 0, e.credit, 0)

\* the line items of a builder, in the order they were added
BuilderLines(tb) ==
    SeqMap(SaleLine, tb.items) \o tb.discount \o tb.payment \o tb.transfer \o tb.account

\* tb._excessCredit(): the credits less the debits of all items
excessCredit(tb) ==
    SumSeq(SeqMap(LineCredit, BuilderLines(tb))) - SumSeq(SeqMap(LineDebit, BuilderLines(tb)))

\* outstandingAmounts(items)
outstandingAmounts(items) == SeqMap(EntryOutstanding, items)

\* updateTicketsWithDiscounts(items, description, amounts, ...): each item's
\* outstanding amount goes down by its share and its discountValue up by it
updateTicketsWithDiscounts(items, amounts) ==
    [i \in 1..Len(items) |->
        [items[i] EXCEPT !.outstanding = @ - amounts[i],
                         !.discountValue = @ + amounts[i]]]

\* new TransactionBuilder(connection)
NewBuilder(dryRun, committed) ==
    [lineItems |-> << >>, tripIds |-> {}, items |-> << >>, discount |-> << >>,
     payment |-> << >>, transfer |-> << >>, account |-> << >>,
     undoFunctions |-> << >>, dryRun |-> dryRun, committed |-> committed]

NewTicket(order) ==
    [userId |-> order.userId, tripId |-> order.tripId, boardStopId |-> order.boardStopId,
     alightStopId |-> order.alightStopId, status |-> "pending", discountValue |-> None]

\* an undo function that goes to the first row of the table
UndoOpOfFirstRow(op, id, status) == [op |-> op, id |-> 1, item |-> 0, status |-> status]

\* an undo function: the row `id` of the table named by `op` gets the status
\* `status` (for "itemNotes", item `item` of transaction `id` loses its notes)
UndoOp(op, id, status) == [op |-> op, id |-> id, item |-> 0, status |-> status]

\* initBuilderWithTicketSale(connection, lineItems): loads the trips and, per
\* order, creates a pending ticket (not in a dry run) and a ticketSale credit
\* of the trip's price, and records the undo that marks the ticket failed.
\* Gives the builder and the ticket table.
initBuilderWithTicketSale(dryRun, committed, lineItems, ticketTable) ==
    LET n == Len(ticketTable)
        entry(i) ==
            [itemType |-> "ticketSale",
             itemId |-> IF dryRun THEN 0 ELSE n + i,
             tripId |-> lineItems[i].tripId,
             userId |-> lineItems[i].userId,
             credit |-> Trips[lineItems[i].tripId].price,
             outstanding |-> Trips[lineItems[i].tripId].price,
             discountValue |-> 0]
    IN  [tb |-> [NewBuilder(dryRun, committed) EXCEPT
                    !.lineItems = lineItems,
                    !.tripIds = {lineItems[i].tripId : i \in 1..Len(lineItems)},
                    !.items = [i \in 1..Len(lineItems) |-> entry(i)],
                    !.undoFunctions =
                        IF dryRun THEN << >>
                        ELSE [i \in 1..Len(lineItems) |->
                                 UndoOp("ticketStatus", n + i, "failed")]],
         tickets |-> IF dryRun THEN ticketTable
                     ELSE ticketTable \o SeqMap(NewTicket, lineItems)]

\* absorbSmallPayments that absorbs any positive excess
absorbSmallPaymentsAnyAmount(tb) ==
    LET excess == excessCredit(tb)
    IN  IF excess > 0
            THEN [tb EXCEPT
                    !.items = updateTicketsWithDiscounts(tb.items, outstandingAmounts(tb.items)),
                    !.discount = Append(tb.discount, Line("discount", 0, excess, 0, 0))]
            ELSE tb

\* absorbSmallPayments that compares the excess in dollars with the minimum
\* charge in cents
absorbSmallPaymentsInDollars(tb) ==
    LET excess == excessCredit(tb)
    IN  IF excess > 0 /\ excess <= MinTransactionChargeInCents * 1000000
            THEN [tb EXCEPT
                    !.items = updateTicketsWithDiscounts(tb.items, outstandingAmounts(tb.items)),
                    !.discount = Append(tb.discount, Line("discount", 0, excess, 0, 0))]
            ELSE tb

\* absorbSmallPayments(tb)
absorbSmallPayments(tb) ==
    LET excess == excessCredit(tb)
    IN  IF excess > 0 /\ excess <= MinTransactionChargeInCents * 10000
            THEN [tb EXCEPT
                    !.items = updateTicketsWithDiscounts(tb.items, outstandingAmounts(tb.items)),
                    !.discount = Append(tb.discount, Line("discount", 0, excess, 0, 0))]
            ELSE tb

\* tb.finalizeForPayment(companyId): a positive excess credit is balanced by a
\* payment debit, a transfer credit to the company and an account debit
finalizeForPayment(tb, companyId) ==
    LET excess == excessCredit(tb)
    IN  IF excess > 0
            THEN [tb EXCEPT
                    !.payment = <<Line("payment", 0, excess, 0, 0)>>,
                    !.transfer = <<Line("transfer", 0, 0, excess, companyId)>>,
                    !.account = <<Line("account", 0, excess, 0, 0)>>]
            ELSE tb

\* the tolerance 0.001 of checkExpectedPrice
PriceTolerance == 1000

\* checkExpectedPrice comparing with the total of the items sold
checkExpectedPriceOfItems(tb, price) ==
    IF price = None THEN Passed
    ELSE IF price[1].isNumber
            /\ Abs(price[1].n - SumSeq(SeqMap(EntryCredit, tb.items))) < PriceTolerance
        THEN Passed
    ELSE Thrown("TransactionError", "The price has changed since you last viewed it")

\* checkExpectedPrice(tb, price): null returns at once; anything else goes
\* through parseFloat, and a comparison with NaN is false
checkExpectedPrice(tb, price) ==
    IF price = None THEN Passed
    ELSE LET paid == IF tb.payment = << >> THEN 0 ELSE tb.payment[1].debit
         IN  IF price[1].isNumber /\ Abs(price[1].n - paid) < PriceTolerance
                 THEN Passed
                 ELSE Thrown("TransactionError", "The price has changed since you last viewed it")

\* the share of `total` that falls to an amount out of `whole`, to the cent
Share(total, amount, whole) ==
    LET t == total \div 10000
        a == amount \div 10000
        w == whole \div 10000
    IN  ((2 * t * a + w) \div (2 * w)) * 10000

\* discounts are spread over the items in proportion to their outstanding
\* amounts, the last item taking what rounding leaves
RECURSIVE Allocate(_, _, _, _)
Allocate(total, amounts, whole, given) ==
    IF Len(amounts) = 1 THEN <<total - given>>
    ELSE LET share == Share(total, Head(amounts), whole)
         IN  <<share>> \o Allocate(total, Tail(amounts), whole, given + share)

\* applyPromoCode(tb, promoCode, "Promotion") followed by
\* updateTransactionBuilderWithPromoDiscounts: the one promotion of the model
\* takes 20% off what is outstanding
applyPromoCode(tb, promoCode) ==
    LET whole == SumSeq(outstandingAmounts(tb.items))
        total == RoundToNearestCent((whole \div 100) * 20)
    IN  IF promoCode # "TWENTY"
            THEN [res |-> Thrown("PromoError", "unknown promotion"), tb |-> tb]
        ELSE IF total = 0
            THEN [res |-> Passed, tb |-> tb]
        ELSE [res |-> Passed,
              tb |-> [tb EXCEPT
                        !.items = updateTicketsWithDiscounts(
                                      tb.items,
                                      Allocate(total, outstandingAmounts(tb.items), whole, 0)),
                        !.discount = Append(tb.discount, Line("discount", 0, total, 0, 0))]]

Min2(a, b) == IF a < b THEN a ELSE b

\* applyRoutePass(tb, tag): ticket after ticket, a valid pass of the ticket's
\* user for the tag and the route's company pays up to its price of what is
\* outstanding and becomes void; its undo makes the pass valid again
RECURSIVE applyRoutePass(_, _, _, _)
applyRoutePass(tb, tag, passTable, i) ==
    IF i > Len(tb.items) THEN [tb |-> tb, routePasses |-> passTable]
    ELSE LET e == tb.items[i]
             route == Trips[e.tripId].route
             Usable(row) ==
                 /\ row.status = "valid"
                 /\ row.userId = e.userId
                 /\ row.tag = tag
                 /\ row.companyId = route.transportCompanyId
             Redeem(usable) ==
                 IF tag \notin route.tags \/ e.outstanding = 0 \/ usable = << >>
                     THEN [tb |-> tb, routePasses |-> passTable]
                     ELSE LET p == usable[1]
                              amount == Min2(passTable[p].price, e.outstanding)
                          IN  [tb |-> [tb EXCEPT
                                         !.items[i].outstanding = @ - amount,
                                         !.items[i].discountValue = @ + amount,
                                         !.discount = Append(@, Line("discount", p, amount, 0, 0)),
                                         !.undoFunctions =
                                             IF tb.dryRun THEN @
                                             ELSE Append(@, UndoOp("routePassStatus", p, "valid"))],
                               routePasses |-> [passTable EXCEPT ![p].status = "void"]]
             Rest(one) == applyRoutePass(one.tb, tag, one.routePasses, i + 1)
         IN  Bind(Bind(IdsWhere(passTable, Usable, 1), Redeem), Rest)

\* routePassTagsFrom(items, ...): the route-pass tags of the trips, in
\* alphabetical order; the model has one such tag
routePassTagsFrom(items) ==
    IF \E i \in 1..Len(items) : "rp-a" \in Trips[items[i].tripId].route.tags
        THEN <<"rp-a">> ELSE << >>

RECURSIVE applyRoutePasses(_, _, _)
applyRoutePasses(tb, tags, passTable) ==
    IF tags = << >> THEN [tb |-> tb, routePasses |-> passTable]
    ELSE LET one == applyRoutePass(tb, Head(tags), passTable, 1)
         IN  applyRoutePasses(one.tb, Tail(tags), one.routePasses)

\* _saveChangesToTickets: a sold ticket becomes valid and keeps its discount
SaveChangesToTickets(items, ticketTable) ==
    [id \in 1..Len(ticketTable) |->
        IF \E i \in 1..Len(items) : items[i].itemType = "ticketSale" /\ items[i].itemId = id
            THEN LET e == items[CHOOSE i \in 1..Len(items) :
                                   items[i].itemType = "ticketSale" /\ items[i].itemId = id]
                 IN  [ticketTable[id] EXCEPT
                        !.status = "valid",
                        !.discountValue = IF e.discountValue = 0 THEN None
                                          ELSE Some(e.discountValue)]
            ELSE ticketTable[id]]

\* _saveChangesToRoutePasses: a sold route pass keeps its discount
SaveChangesToRoutePasses(items, passTable) ==
    [id \in 1..Len(passTable) |->
        IF \E i \in 1..Len(items) : items[i].itemType = "routePass" /\ items[i].itemId = id
            THEN LET e == items[CHOOSE i \in 1..Len(items) :
                                   items[i].itemType = "routePass" /\ items[i].itemId = id]
                 IN  [passTable[id] EXCEPT
                        !.discountValue = IF e.discountValue = 0 THEN None
                                          ELSE Some(e.discountValue)]
            ELSE passTable[id]]

\* tb.build({type}): checks that the lines add up to zero; in a dry run gives
\* the lines and writes nothing; otherwise writes the transaction with its
\* lines and runs the post-transaction hooks.  The undo function it returns
\* runs the builder's undoFunctions.
build(tb, type, db) ==
    LET lines == BuilderLines(tb)
    IN  IF SumSeq(SeqMap(LineDebit, lines)) # SumSeq(SeqMap(LineCredit, lines))
            THEN [res |-> Thrown("InternalError", "Transaction does not add up to zero"),
                  lines |-> << >>, undo |-> << >>, db |-> db]
        ELSE IF tb.dryRun
            THEN [res |-> Passed, lines |-> lines, undo |-> tb.undoFunctions, db |-> db]
        ELSE [res |-> Passed, lines |-> lines, undo |-> tb.undoFunctions,
              db |-> [tickets |-> SaveChangesToTickets(tb.items, db.tickets),
                      routePasses |-> SaveChangesToRoutePasses(tb.items, db.routePasses),
                      txns |-> Append(db.txns, [type |-> type, committed |-> tb.committed,
                                                items |-> lines])]]

----------------------------------------------------------------------------
(* The workflows.  Each runs inside one database transaction: db is the    *)
(* database the call started from, and the database of the outcome is the  *)
(* committed one, which is db itself when the call threw.                  *)

Dollars(d, c) == Some(Number(Amt(d, c)))

\* the outcome of a call that threw: nothing is returned and the database
\* transaction is rolled back.  `due` is the payment the builder had come to
\* when the call got as far as the payment of the balance.
FailedAt(res, steps, due, db) ==
    [res |-> res, steps |-> steps, lines |-> << >>, undo |-> << >>, due |-> due, db |-> db]

Failed(res, steps, db) == FailedAt(res, steps, None, db)

PaymentDue(tb) == IF tb.payment = << >> THEN 0 ELSE tb.payment[1].debit

MinOf(S) == CHOOSE x \in S : \A y \in S : x <= y

\* steps 7 to 10 of prepareTicketSale: absorbing a small payment, the payment
\* of the balance, the expected price and the build
SaleFromPayment(req, tb, tripIds, steps, working, db) ==
    LET companyId == Trips[MinOf(tripIds)].route.transportCompanyId
        steps7 == steps \o <<"absorb", "finalize", "expectedPrice">>
        Build(final) ==
            IF checkExpectedPrice(final, req.expectedPrice).status # "ok"
                THEN FailedAt(checkExpectedPrice(final, req.expectedPrice), steps7,
                              Some(PaymentDue(final)), db)
                ELSE Bind(build(final, "ticketPurchase", working),
                          LAMBDA built :
                              IF built.res.status # "ok"
                                  THEN FailedAt(built.res, steps7 \o <<"build">>,
                                                Some(PaymentDue(final)), db)
                                  ELSE [res |-> Passed, steps |-> steps7 \o <<"build">>,
                                        lines |-> built.lines, undo |-> built.undo,
                                        due |-> Some(PaymentDue(final)), db |-> built.db])
    IN  Bind(finalizeForPayment(absorbSmallPayments(tb), companyId), Build)

\* the steps after the checks with the promotion applied before the route
\* passes are redeemed
SaleAfterChecksPromotingFirst(req, tb, ticketTable, db) ==
    LET steps3 == <<"init", "checks">>
                     \o (IF req.promoCode # None THEN <<"promo">> ELSE << >>)
        steps4 == steps3 \o (IF req.applyRoutePass THEN <<"routePass">> ELSE << >>)
        Redeem(promo) ==
            IF promo.res.status # "ok" THEN Failed(promo.res, steps3, db)
            ELSE Bind(IF req.applyRoutePass
                          THEN applyRoutePasses(promo.tb, routePassTagsFrom(promo.tb.items),
                                                db.routePasses)
                          ELSE [tb |-> promo.tb, routePasses |-> db.routePasses],
                      LAMBDA passes :
                          SaleFromPayment(
                              req, passes.tb, tb.tripIds, steps4,
                              [tickets |-> ticketTable,
                               routePasses |-> IF req.dryRun THEN db.routePasses
                                               ELSE passes.routePasses,
                               txns |-> db.txns],
                              db))
    IN  Bind(IF req.promoCode # None
                 THEN applyPromoCode(tb, req.promoCode[1])
                 ELSE [res |-> Passed, tb |-> tb],
             Redeem)

\* the steps of prepareTicketSale after the checks have passed
SaleAfterChecks(req, tb, ticketTable, db) ==
    LET steps4 == <<"init", "checks">>
                     \o (IF req.applyRoutePass THEN <<"routePass">> ELSE << >>)
                     \o (IF req.promoCode # None THEN <<"promo">> ELSE << >>)
        Promote(passes) ==
            Bind(IF req.promoCode # None
                     THEN applyPromoCode(passes.tb, req.promoCode[1])
                     ELSE [res |-> Passed, tb |-> passes.tb],
                 LAMBDA promo :
                     IF promo.res.status # "ok" THEN Failed(promo.res, steps4, db)
                     ELSE SaleFromPayment(
                              req, promo.tb, tb.tripIds, steps4,
                              [tickets |-> ticketTable,
                               routePasses |-> IF req.dryRun THEN db.routePasses
                                               ELSE passes.routePasses,
                               txns |-> db.txns],
                              db))
    IN  Bind(IF req.applyRoutePass
                 THEN applyRoutePasses(tb, routePassTagsFrom(tb.items), db.routePasses)
                 ELSE [tb |-> tb, routePasses |-> db.routePasses],
             Promote)

\* prepareTicketSale(connection, options) at the time `now`
prepareTicketSale(req, now, db) ==
    Bind(initBuilderWithTicketSale(req.dryRun, req.committed, req.trips, db.tickets),
         LAMBDA init :
             Bind(runOrderChecks(init.tb.tripIds, init.tb.lineItems, req.checks, now, db.tickets),
                  LAMBDA checks :
                      IF checks.status # "ok"
                          THEN Failed(checks, <<"init", "checks">>, db)
                          ELSE SaleAfterChecks(req, init.tb, init.tickets, db)))

\* Math.round(a / b) for positive amounts
RoundDiv(a, b) == (2 * a + b) \div (2 * b)

\* the tag of the route passes on sale, and the price of the next trip of a
\* route carrying it
PassTag == "rp-a"

PassPrice == Trips[1].price

NewRoutePass(req) ==
    [userId |-> req.userId, companyId |-> req.companyId, tag |-> req.tag,
     status |-> "valid", price |-> PassPrice, discountValue |-> None]

\* quantity = Math.round(options.quantity || options.value / price), counted
\* down to the sale before the nearest whole number
PurchaseQuantityRoundedDown(req, price) ==
    IF Truthy(req.quantity) THEN req.quantity[1] ELSE req.value[1] \div price

\* quantity = Math.round(options.quantity || options.value / price)
PurchaseQuantity(req, price) ==
    IF Truthy(req.quantity) THEN req.quantity[1] ELSE RoundDiv(req.value[1], price)

\* value = roundToNearestCent(options.value || price * quantity)
PurchaseValue(req, price) ==
    RoundToNearestCent(IF Truthy(req.value) THEN req.value[1]
                       ELSE price * PurchaseQuantity(req, price))

\* the part of purchaseRoutePass that follows the creation of the passes
PurchaseFromPromo(req, tb, passTable, db) ==
    LET steps == <<"init">> \o (IF req.promoCode # None THEN <<"promo">> ELSE << >>)
        steps3 == steps \o <<"finalize", "expectedPrice">>
        Build(final) ==
            IF checkExpectedPrice(final, req.expectedPrice).status # "ok"
                THEN FailedAt(checkExpectedPrice(final, req.expectedPrice), steps3,
                              Some(PaymentDue(final)), db)
                ELSE Bind(build(final, "routePassPurchase",
                                [tickets |-> db.tickets, routePasses |-> passTable,
                                 txns |-> db.txns]),
                          LAMBDA built :
                              IF built.res.status # "ok"
                                  THEN FailedAt(built.res, steps3 \o <<"build">>,
                                                Some(PaymentDue(final)), db)
                                  ELSE [res |-> Passed, steps |-> steps3 \o <<"build">>,
                                        lines |-> built.lines, undo |-> built.undo,
                                        due |-> Some(PaymentDue(final)), db |-> built.db])
    IN  Bind(IF req.promoCode # None
                 THEN applyPromoCode(tb, req.promoCode[1])
                 ELSE [res |-> Passed, tb |-> tb],
             LAMBDA promo :
                 IF promo.res.status # "ok" THEN Failed(promo.res, steps, db)
                 ELSE Bind(finalizeForPayment(promo.tb, req.companyId), Build))

\* purchaseRoutePass that records the undo of a pass in a dry run as well
purchaseRoutePassUndoingDryRun(req, db) ==
    IF ~(Truthy(req.quantity) /\ ~Truthy(req.value)) /\ ~(~Truthy(req.quantity) /\ Truthy(req.value))
        THEN Failed(Thrown("AssertionError", "Only quantity or value should be specified, not both"),
                    <<"init">>, db)
    ELSE LET price == PassPrice
             quantity == PurchaseQuantity(req, price)
             n == Len(db.routePasses)
             entry(i) == [itemType |-> "routePass",
                          itemId |-> IF req.dryRun THEN i - 1 ELSE n + i,
                          tripId |-> 0, userId |-> req.userId,
                          credit |-> price, outstanding |-> price, discountValue |-> 0]
         IN  PurchaseFromPromo(
                 req,
                 [NewBuilder(req.dryRun, TRUE) EXCEPT
                     !.items = [i \in 1..quantity |-> entry(i)],
                     !.undoFunctions =
                         [i \in 1..quantity |-> UndoOp("routePassStatus", n + i, "failed")]],
                 IF req.dryRun THEN db.routePasses
                 ELSE db.routePasses \o [i \in 1..quantity |-> NewRoutePass(req)],
                 db)

\* purchaseRoutePass(options)
purchaseRoutePass(req, db) ==
    IF ~(Truthy(req.quantity) /\ ~Truthy(req.value)) /\ ~(~Truthy(req.quantity) /\ Truthy(req.value))
        THEN Failed(Thrown("AssertionError", "Only quantity or value should be specified, not both"),
                    <<"init">>, db)
    ELSE LET price == PassPrice
             quantity == PurchaseQuantity(req, price)
             n == Len(db.routePasses)
             entry(i) == [itemType |-> "routePass",
                          itemId |-> IF req.dryRun THEN i - 1 ELSE n + i,
                          tripId |-> 0, userId |-> req.userId,
                          credit |-> price, outstanding |-> price, discountValue |-> 0]
         IN  PurchaseFromPromo(
                 req,
                 [NewBuilder(req.dryRun, TRUE) EXCEPT
                     !.items = [i \in 1..quantity |-> entry(i)],
                     !.undoFunctions =
                         IF req.dryRun THEN << >>
                         ELSE [i \in 1..quantity |-> UndoOp("routePassStatus", n + i, "failed")]],
                 IF req.dryRun THEN db.routePasses
                 ELSE db.routePasses \o [i \in 1..quantity |-> NewRoutePass(req)],
                 db)

----------------------------------------------------------------------------
(* The calls made                                                          *)

\* most rows of the Ticket table
MaxTickets == 2

\* most rows of the RoutePass table
MaxPasses == 1

Order(userId, tripId, boardStopId, alightStopId) ==
    [userId |-> userId, tripId |-> tripId, boardStopId |-> boardStopId,
     alightStopId |-> alightStopId]

\* one order per user and trip with stops of the trip, and one with a stop of
\* another trip
Orders ==
    {Order(1, 1, 11, 12), Order(2, 1, 11, 12), Order(1, 2, 21, 22), Order(1, 3, 31, 32),
     Order(1, 4, 41, 42), Order(1, 1, 21, 12)}

OrderLists ==
    {<<o>> : o \in Orders}
        \cup {<<Order(1, 1, 11, 12), Order(1, 2, 21, 22)>>,
              <<Order(1, 1, 11, 12), Order(2, 1, 11, 12)>>,
              <<Order(1, 2, 21, 22), Order(1, 3, 31, 32)>>,
              <<Order(1, 2, 21, 22), Order(1, 4, 41, 42)>>,
              <<Order(2, 1, 11, 12), Order(1, 1, 21, 12)>>}

AllChecks == [ensureAvailability : BOOLEAN, noDuplicates : BOOLEAN, bookingWindow : BOOLEAN]

DefaultChecks == [ensureAvailability |-> TRUE, noDuplicates |-> TRUE, bookingWindow |-> TRUE]

\* the times of the calls: before and after the stops of every trip
Times == [early |-> 50, late |-> 150]

SaleRequest(trips, checks, promoCode, applyPass, dryRun, committed, expectedPrice) ==
    [trips |-> trips, checks |-> checks, promoCode |-> promoCode, applyRoutePass |-> applyPass,
     dryRun |-> dryRun, committed |-> committed, expectedPrice |-> expectedPrice]

ExpectedPrices ==
    {Dollars(0, 0), Dollars(14, 99), Dollars(15, 0), Some(Number(Amt(15, 0) + 999)),
     Some(Number(Amt(15, 0) - 1001))}

\* the calls of prepareTicketSale: every combination of checks before the
\* stops, and the default checks after them; every expected price for some
\* carts; every combination of the other options for some carts
SaleCalls ==
    {[req |-> SaleRequest(t, c, None, FALSE, FALSE, TRUE, None), now |-> Times.early] :
        t \in OrderLists, c \in AllChecks}
    \cup
    {[req |-> SaleRequest(t, DefaultChecks, None, FALSE, FALSE, TRUE, None), now |-> Times.late] :
        t \in OrderLists}
    \cup
    {[req |-> SaleRequest(t, DefaultChecks, None, FALSE, FALSE, TRUE, e), now |-> Times.early] :
        t \in {<<Order(1, 1, 11, 12), Order(1, 2, 21, 22)>>, <<Order(1, 3, 31, 32)>>,
               <<Order(1, 2, 21, 22)>>},
        e \in ExpectedPrices}
    \cup
    {[req |-> SaleRequest(t, DefaultChecks, p, a, d, c, None), now |-> Times.early] :
        t \in {<<Order(1, 1, 11, 12)>>, <<Order(1, 1, 11, 12), Order(1, 2, 21, 22)>>,
               <<Order(1, 4, 41, 42)>>},
        p \in {None, Some("TWENTY")}, a \in BOOLEAN, d \in BOOLEAN, c \in BOOLEAN}
    \cup
    {[req |-> SaleRequest(<<Order(1, 1, 11, 12)>>, DefaultChecks, Some("UNKNOWN"), a, d, TRUE, None),
      now |-> Times.early] :
        a \in BOOLEAN, d \in BOOLEAN}

PassRequests ==
    [userId : {1}, tag : {PassTag}, companyId : {1}, promoCode : {None},
     quantity : {None, Some(0), Some(1), Some(2)},
     value : {None, Some(Amt(7, 0)), Some(Amt(8, 0))},
     dryRun : BOOLEAN,
     expectedPrice : {None, Some(NotANumber), Dollars(5, 0), Dollars(4, 99)}]

DB == [tickets |-> tickets, routePasses |-> routePasses, txns |-> txns]

Init ==
    /\ val = ValIdle
    /\ win = WinIdle
    /\ tickets = << >>
    /\ routePasses = << >>
    /\ txns = << >>
    /\ last = LastIdle
    /\ OthersIdle

PrepareTicketSale ==
    \E call \in SaleCalls :
        /\ last.op = "none"
        /\ call.req.dryRun \/ Len(tickets) + Len(call.req.trips) <= MaxTickets
        /\ \E out \in {prepareTicketSale(call.req, call.now, DB)} :
               /\ tickets' = out.db.tickets
               /\ routePasses' = out.db.routePasses
               /\ txns' = out.db.txns
               /\ last' = [op |-> "prepareTicketSale", req |-> call.req, now |-> call.now,
                           res |-> out.res, steps |-> out.steps, lines |-> out.lines,
                           undo |-> out.undo, due |-> out.due,
                           before |-> [tickets |-> Len(tickets), routePasses |-> routePasses,
                                       txns |-> Len(txns)]]
        /\ UNCHANGED <<val, win, fn, payments, charges, env>>

PurchaseRoutePass ==
    \E req \in PassRequests :
        /\ last.op = "none"
        /\ \E out \in {purchaseRoutePass(req, DB)} :
               /\ Len(out.db.routePasses) <= MaxPasses
               /\ tickets' = out.db.tickets
               /\ routePasses' = out.db.routePasses
               /\ txns' = out.db.txns
               /\ last' = [op |-> "purchaseRoutePass", req |-> req, now |-> Times.early,
                           value |-> IF out.res.status = "AssertionError" THEN None
                                     ELSE Some(PurchaseValue(req, PassPrice)),
                           res |-> out.res, steps |-> out.steps, lines |-> out.lines,
                           undo |-> out.undo, due |-> out.due,
                           before |-> [tickets |-> Len(tickets), routePasses |-> routePasses,
                                       txns |-> Len(txns)]]
        /\ UNCHANGED <<val, win, fn, payments, charges, env>>

\* the caller takes the outcome of its call; the next call starts after that
ReturnToCaller ==
    /\ last.op # "none"
    /\ last' = LastIdle
    /\ UNCHANGED <<val, win, tickets, routePasses, txns, fn, payments, charges, env>>

Next == PrepareTicketSale \/ PurchaseRoutePass \/ ReturnToCaller

Spec == Init /\ [][Next]_vars

----------------------------------------------------------------------------
(* prepareTicketRefund                                                     *)

\* the tolerance 0.0001 of the all-or-nothing refund
RefundTolerance == 100

\* the ids of the transactions, in order, that hold an item of the type for
\* the ticket
TxnsWithItem(txnTable, itemType, itemId) ==
    IdsWhere(txnTable,
             LAMBDA txn : \E i \in 1..Len(txn.items) :
                              txn.items[i].itemType = itemType /\ txn.items[i].itemId = itemId,
             1)

ItemsOf(txn, itemType) == SelectSeq(txn.items, LAMBDA l : l.itemType = itemType)

\* the debits of the ticketRefund items of the ticket in committed transactions
PreviouslyRefunded(txnTable, ticketId) ==
    SumSeq([i \in 1..Len(txnTable) |->
               IF txnTable[i].committed
                   THEN SumSeq(SeqMap(LineDebit,
                            SelectSeq(txnTable[i].items,
                                      LAMBDA l : l.itemType = "ticketRefund"
                                                     /\ l.itemId = ticketId)))
                   ELSE 0])

\* a refund policy that gives back any part of what the ticket is worth
AnyPartOfWorth(targetAmt, priceAfterDiscount) ==
    targetAmt < priceAfterDiscount + RefundTolerance

\* the all-or-nothing comparison of prepareTicketRefund
AllOrNothing(targetAmt, priceAfterDiscount) ==
    Abs(targetAmt - priceAfterDiscount) < RefundTolerance

\* the refund bound of prepareTicketRefund left out
AnyAmountLeft(possibleRefundAmt, targetAmt) == possibleRefundAmt + targetAmt >= targetAmt

\* the refund bound of prepareTicketRefund: no more than the ticket is worth
\* less what was refunded before
WithinRefundable(possibleRefundAmt, targetAmt) == possibleRefundAmt >= targetAmt

\* Payment.calculateAdminFeeInCents(cents, isMicro, isLocalAndNonAmex): the
\* gateway's fee on a charge of so many cents, a rate per thousand and a fixed
\* part that depend on the two flags; nothing on nothing
calculateAdminFeeInCents(cents, isMicro, isLocalAndNonAmex) ==
    LET rate == IF isMicro THEN 50 ELSE IF isLocalAndNonAmex THEN 27 ELSE 34
        fixed == IF isMicro THEN 10 ELSE 50
    IN  IF cents <= 0 THEN 0 ELSE (cents * rate + 500) \div 1000 + fixed

\* Payment.isLocalAndNonAmex(charge.source)
isLocalAndNonAmex(source) == source.country = "SG" /\ source.brand # "American Express"

\* generateRefundInfo that takes the fee of the refunded amount alone
generateRefundInfoFeeOfAmount(charge, amount, isMicro) ==
    LET balanceAmtCents == charge.amount - charge.amount_refunded
        refundAmtCents == (amount + 5000) \div 10000
    IN  [res |-> IF balanceAmtCents * 10000 >= amount - 1000 THEN Passed
                 ELSE Thrown("TransactionError",
                             "Requested refund exceeds amount paid for ticket"),
         processingFee |->
             10000 * calculateAdminFeeInCents(refundAmtCents, isMicro = Some(TRUE),
                                              isLocalAndNonAmex(charge.source)),
         charge |-> charge, isMicro |-> isMicro,
         balanceAmtCents |-> balanceAmtCents, amount |-> amount]

\* generateRefundInfo(paymentItem, amount, isMicro, idempotencyKey), with the
\* charge the gateway answers with, in cents; isMicro may be undefined.  The
\* idempotency key is passed through and is left to the caller here.
generateRefundInfo(charge, amount, isMicro) ==
    LET balanceAmtCents == charge.amount - charge.amount_refunded
        refundAmtCents == (amount + 5000) \div 10000
        local == isLocalAndNonAmex(charge.source)
        updatedBalance == balanceAmtCents - refundAmtCents
    IN  [res |-> IF balanceAmtCents * 10000 >= amount - 1000 THEN Passed
                 ELSE Thrown("TransactionError",
                             "Requested refund exceeds amount paid for ticket"),
         processingFee |->
             10000 * (calculateAdminFeeInCents(balanceAmtCents, isMicro = Some(TRUE), local)
                        - calculateAdminFeeInCents(updatedBalance, isMicro = Some(TRUE), local)),
         charge |-> charge, isMicro |-> isMicro,
         balanceAmtCents |-> balanceAmtCents, amount |-> amount]

\* the recorded undo functions, run last first under a new database transaction
RECURSIVE RunUndoFunctions(_, _)
RunUndoFunctions(undoFunctions, db) ==
    IF undoFunctions = << >> THEN db
    ELSE LET u == undoFunctions[Len(undoFunctions)]
             rest == SubSeq(undoFunctions, 1, Len(undoFunctions) - 1)
             done ==
                 CASE u.op = "ticketStatus" ->
                          [db EXCEPT !.tickets[u.id].status = u.status]
                   [] u.op = "routePassStatus" ->
                          [db EXCEPT !.routePasses[u.id].status = u.status]
                   [] u.op = "itemNotes" ->
                          [db EXCEPT !.txns[u.id].items[u.item].notes = None]
         IN  RunUndoFunctions(rest, done)

\* Payment.refund(builder, null, ticketId, companyId, refundInfo): the
\* payment is given back and the transfer to the company reversed
PaymentRefund(refundLine, companyId, amount) ==
    <<refundLine,
      Line("refundPayment", 0, 0, amount, 0),
      Line("transfer", 0, amount, 0, companyId),
      Line("account", 0, 0, amount, 0)>>

\* the company found for a ticket, taken from the route of trip 1
CompanyOfFirstTrip(db, ticketId) == Trips[1].route.transportCompanyId

\* the company of the route of the trip of the stop the ticket boards at
CompanyOfTicket(db, ticketId) ==
    Trips[TripOfStop(db.tickets[ticketId].boardStopId)].route.transportCompanyId

\* the credentials of the callers: for each role, the companies they hold it for
AdminCredentials == {[refund |-> {}], [refund |-> {1}], [refund |-> {2}]}

\* auth.assertAdminRole(credentials, role, companyId) passes
assertAdminRole(credentials, role, companyId) == companyId \in credentials[role]

\* options.isMicro of a row of table Payment, when the row has options
PaymentIsMicro(payment) ==
    IF payment.options = None THEN None ELSE Some(payment.options[1].isMicro)

\* relatedTIs[0].options && relatedTIs[0].options.isMicro: the flag read
\* from the first item of the transaction of the sale.  A transaction item
\* has the columns of Line, and options is not one of them.
TicketRefundIsMicro(relatedTIs) ==
    LET first == relatedTIs[1]
    IN  IF "options" \in DOMAIN first THEN PaymentIsMicro(first) ELSE None

\* prepareTicketRefund(options) with the credentials of the caller and the
\* charge of the payment as the gateway reports it
prepareTicketRefund(req, credentials, charge, db) ==
    LET Fail(kind, what) ==
            [res |-> Thrown(kind, what), lines |-> << >>, undo |-> << >>, db |-> db]
    IN
    IF req.targetAmt = 0 \/ req.ticketId = 0
        THEN Fail("AssertionError", "targetAmt and ticketId")
    ELSE IF req.ticketId \notin 1..Len(db.tickets)
        THEN Fail("TypeError", "ticket is null")
    ELSE LET ticket == db.tickets[req.ticketId]
             companyId == CompanyOfTicket(db, req.ticketId)
             sales == TxnsWithItem(db.txns, "ticketSale", req.ticketId)
         IN
         IF ticket.status \notin {"valid", "void"}
             THEN Fail("TransactionError", "Trying to refund a non-valid ticket")
         ELSE IF ~assertAdminRole(credentials, "refund", companyId)
             THEN Fail("AuthError", "not an admin of the company")
         ELSE IF sales = << >>
             THEN Fail("TransactionError", "ticketSale not found")
         ELSE LET txn == db.txns[sales[1]]
                  ticketSale == SelectSeq(txn.items,
                                          LAMBDA l : l.itemType = "ticketSale"
                                                         /\ l.itemId = req.ticketId)[1]
                  payment == ItemsOf(txn, "payment")
                  previouslyRefunded == PreviouslyRefunded(db.txns, req.ticketId)
                  priceAfterDiscount ==
                      ticketSale.credit
                          - (IF ticket.discountValue = None THEN 0 ELSE ticket.discountValue[1])
                  possibleRefundAmt == priceAfterDiscount - previouslyRefunded
                  refundLine == Refunding(Line("ticketRefund", req.ticketId, req.targetAmt, 0, 0),
                                          sales[1])
                  refunded == [db.tickets EXCEPT ![req.ticketId].status = "refunded"]
                  stripeRefundInfo == generateRefundInfo(charge, req.targetAmt,
                                                         TicketRefundIsMicro(txn.items))
                  lines == PaymentRefund(refundLine, companyId, req.targetAmt)
              IN
              IF Len(payment) # 1
                  THEN Fail("AssertionError", "one payment")
              ELSE IF ~(payment[1].debit > 0)
                  THEN Fail("TransactionError", "No payment was made for this transaction")
              ELSE IF ~AllOrNothing(req.targetAmt, priceAfterDiscount)
                  THEN Fail("TransactionError",
                            "requires requested refund to equal ticket value after discounts")
              ELSE IF ~WithinRefundable(possibleRefundAmt, req.targetAmt)
                  THEN Fail("TransactionError",
                            "Refund requested causes total refunded to exceed allowed refund amount")
              ELSE IF stripeRefundInfo.res.status # "ok"
                  THEN Fail(stripeRefundInfo.res.status, stripeRefundInfo.res.error)
              ELSE IF SumSeq(SeqMap(LineDebit, lines)) # SumSeq(SeqMap(LineCredit, lines))
                  THEN Fail("InternalError", "Transaction does not add up to zero")
              ELSE [res |-> Passed, lines |-> lines, refundInfo |-> stripeRefundInfo,
                    undo |-> <<[op |-> "ticketStatus", id |-> req.ticketId,
                                status |-> "valid"]>>,
                    db |-> [tickets |-> refunded,
                            routePasses |-> db.routePasses,
                            txns |-> Append(db.txns, [type |-> "refundPayment",
                                                      committed |-> TRUE,
                                                      items |-> lines])]]

\* the sales the refunds are asked for: one trip, two trips, with and
\* without a promo code, and a trip whose price is under the minimum charge
RefundSales ==
    {SaleRequest(t, DefaultChecks, p, FALSE, FALSE, TRUE, None) :
        t \in {<<Order(1, 2, 21, 22)>>, <<Order(1, 1, 11, 12), Order(1, 2, 21, 22)>>,
               <<Order(1, 3, 31, 32)>>},
        p \in {None, Some("TWENTY")}}

\* the amounts asked back: none, 7.00, 8.00, 10.00, and 0.000099 and
\* 0.000101 either side of 8.00
TargetAmts ==
    {0, Amt(7, 0), Amt(8, 0), Amt(10, 0), Amt(8, 0) + 99, Amt(8, 0) - 99, Amt(8, 0) + 101,
     Amt(8, 0) - 101}

RefundRequests == [ticketId : 1..3, targetAmt : TargetAmts]

\* the charge of a payment as the gateway reports it: of the amount paid,
\* with nothing or all of it refunded
ChargeOf(db, ticketId, spent) ==
    LET sales == TxnsWithItem(db.txns, "ticketSale", ticketId)
        paid == IF sales = << >> THEN 0
                ELSE SumSeq(SeqMap(LineDebit, ItemsOf(db.txns[sales[1]], "payment"))) \div 10000
    IN  [amount |-> paid, amount_refunded |-> IF spent THEN paid ELSE 0,
         source |-> [country |-> "SG", brand |-> "Visa"]]

InitRefund ==
    /\ val = ValIdle
    /\ win = WinIdle
    /\ last = LastIdle
    /\ OthersIdle
    /\ \E req \in RefundSales :
           \E out \in {prepareTicketSale(req, Times.early,
                                        [tickets |-> << >>, routePasses |-> << >>,
                                         txns |-> << >>])} :
               /\ \E voided \in {{}, {1}, {Len(out.db.tickets)}} :
                      tickets = [i \in 1..Len(out.db.tickets) |->
                                    IF i \in voided
                                        THEN [out.db.tickets[i] EXCEPT !.status = "void"]
                                        ELSE out.db.tickets[i]]
               /\ routePasses = out.db.routePasses
               /\ txns = out.db.txns

PrepareTicketRefund ==
    \E req \in RefundRequests, credentials \in AdminCredentials, spent \in BOOLEAN :
        /\ last.op = "none"
        /\ \E out \in {prepareTicketRefund(req, credentials, ChargeOf(DB, req.ticketId, spent), DB)} :
               /\ tickets' = out.db.tickets
               /\ routePasses' = out.db.routePasses
               /\ txns' = out.db.txns
               /\ last' = [op |-> "prepareTicketRefund", req |-> req, now |-> Times.early,
                           res |-> out.res, steps |-> << >>, lines |-> out.lines,
                           due |-> None,
                           credentials |-> credentials,
                           authorised |->
                               /\ req.ticketId \in 1..Len(tickets)
                               /\ Trips[tickets[req.ticketId].tripId].route.transportCompanyId
                                      \in credentials.refund,
                           spent |-> spent,
                           undo |-> out.undo,
                           prior |-> IF req.ticketId \in 1..Len(tickets)
                                         THEN tickets[req.ticketId].status ELSE "",
                           before |-> [tickets |-> Len(tickets), routePasses |-> routePasses,
                                       txns |-> Len(txns)]]
        /\ UNCHANGED <<val, win, fn, payments, charges, env>>

\* the caller of a refund runs the undo function it was given
RunUndo ==
    /\ last.op \in {"prepareTicketRefund", "prepareRoutePassRefund"}
    /\ last.res.status = "ok"
    /\ \E db \in {RunUndoFunctions(last.undo, DB)} :
           /\ tickets' = db.tickets
           /\ routePasses' = db.routePasses
           /\ txns' = db.txns
    /\ last' = [op |-> "undo", of |-> last.op, req |-> last.req, prior |-> last.prior,
                res |-> Passed]
    /\ UNCHANGED <<val, win, fn, payments, charges, env>>

NextRefund == PrepareTicketRefund \/ RunUndo \/ ReturnToCaller

SpecRefund == InitRefund /\ [][NextRefund]_vars

\* the ticket a refund was asked for, when there is such a ticket
RefundTicketKnown == last.req.ticketId \in 1..Len(tickets)

\* the credit of the sale of the ticket less the discount kept on the ticket
RefundWorth ==
    LET id == last.req.ticketId
        sale == CHOOSE i \in 1..Len(txns) :
                    \E j \in 1..Len(txns[i].items) :
                        txns[i].items[j].itemType = "ticketSale" /\ txns[i].items[j].itemId = id
        line == CHOOSE j \in 1..Len(txns[sale].items) :
                    txns[sale].items[j].itemType = "ticketSale" /\ txns[sale].items[j].itemId = id
    IN  txns[sale].items[line].credit
            - (IF tickets[id].discountValue = None THEN 0 ELSE tickets[id].discountValue[1])

SoldTickets(txnTable) ==
    {id \in 1..Len(tickets) : TxnsWithItem(txnTable, "ticketSale", id) # << >>}

WorthOf(id, ticketTable, txnTable) ==
    LET txn == txnTable[TxnsWithItem(txnTable, "ticketSale", id)[1]]
        sale == SelectSeq(txn.items, LAMBDA l : l.itemType = "ticketSale" /\ l.itemId = id)[1]
    IN  sale.credit - (IF ticketTable[id].discountValue = None THEN 0
                       ELSE ticketTable[id].discountValue[1])

TicketRefundCalled == last.op = "prepareTicketRefund"

\* C11: after any refunds and undos, the debits of the committed ticketRefund
\* items of a ticket add up to no more than the credit of its sale less its
\* discountValue, plus 0.0001; and a refund that would take what was refunded
\* before above that worth, asked by an admin of the company for a ticket
\* whose sale was paid, is refused with a TransactionError and changes nothing.
C11_RefundBound ==
    [][/\ \A id \in SoldTickets(txns)' :
              PreviouslyRefunded(txns', id) <= WorthOf(id, tickets', txns') + RefundTolerance
       /\ (/\ last'.op = "prepareTicketRefund"
           /\ last.op = "none"
           /\ last'.req.ticketId \in SoldTickets(txns)
           /\ last'.req.targetAmt # 0
           /\ last'.authorised
           /\ PreviouslyRefunded(txns, last'.req.ticketId) + last'.req.targetAmt
                  > WorthOf(last'.req.ticketId, tickets, txns)
           /\ \E l \in {ItemsOf(txns[TxnsWithItem(txns, "ticketSale",
                                                   last'.req.ticketId)[1]], "payment")} :
                  Len(l) = 1 /\ l[1].debit > 0)
              => /\ last'.res.status = "TransactionError"
                 /\ UNCHANGED <<tickets, routePasses, txns>>]_vars

\* a ticket worth 8.00 of which 7.999901 was refunded and the refund undone
\* was refused a refund of 8.00
C11_Witness ==
    /\ TicketRefundCalled
    /\ last.res.error =
           "Refund requested causes total refunded to exceed allowed refund amount"
    /\ last.req.targetAmt = Amt(8, 0)
    /\ last.prior = "valid"
    /\ PreviouslyRefunded(txns, last.req.ticketId) = Amt(8, 0) - 99

\* C12 as stated: a refund is given only for a ticket that is valid or void
\* and leaves it refunded, and running the undo of the refund gives the
\* ticket the status it had before the refund.
C12_AsStated ==
    /\ (TicketRefundCalled /\ last.res.status = "ok") =>
           /\ last.prior \in {"valid", "void"}
           /\ tickets[last.req.ticketId].status = "refunded"
    /\ (last.op = "undo" /\ last.of = "prepareTicketRefund") =>
           tickets[last.req.ticketId].status = last.prior

----------------------------------------------------------------------------
(* prepareRoutePassRefund                                                  *)

\* most transactions in the database of the route pass refunds
MaxTxns == 3

\* a status check of prepareRoutePassRefund that lets a refunded pass through
RefundableOrRefunded(status) == status \in {"valid", "void", "expired", "refunded"}

\* the statuses of a route pass that prepareRoutePassRefund refunds
RoutePassRefundable(status) == status \in {"valid", "void", "expired"}

\* prepareRoutePassRefund(options): req names options.transactionItem (a
\* transaction and the place of the item in it) and options.routePass;
\* isMicro is options.isMicro of the Payment row and charge what the gateway
\* holds for the payment
prepareRoutePassRefund(req, isMicro, charge, db) ==
    LET Fail(kind, what) ==
            [res |-> Thrown(kind, what), lines |-> << >>, undo |-> << >>, db |-> db]
        transactionItem == db.txns[req.transactionId].items[req.item]
        routePass == db.routePasses[req.routePassId]
        priceAfterDiscount ==
            transactionItem.credit
                - (IF routePass.discountValue = None THEN 0 ELSE routePass.discountValue[1])
        paymentItem == ItemsOf(db.txns[req.transactionId], "payment")
        stripeRefundInfo == generateRefundInfo(charge, priceAfterDiscount, isMicro)
        lastStatus == routePass.status
        lines == PaymentRefund(Refunding(Line("routePass", req.routePassId,
                                              priceAfterDiscount, 0, 0),
                                         req.transactionId),
                               routePass.companyId, priceAfterDiscount)
    IN
    IF transactionItem.itemId # req.routePassId
        THEN Fail("TransactionError", "This transaction item does not relate to this route pass")
    ELSE IF ~(transactionItem.debit <= 0)
        THEN Fail("TransactionError", "This transaction item has debit > 0")
    ELSE IF ~RoutePassRefundable(routePass.status)
        THEN Fail("TransactionError",
                  "Only valid, void or expired route passes can be refunded")
    ELSE IF paymentItem = << >>
        THEN Fail("TypeError", "paymentItem is null")
    ELSE IF stripeRefundInfo.res.status # "ok"
        THEN Fail(stripeRefundInfo.res.status, stripeRefundInfo.res.error)
    ELSE IF SumSeq(SeqMap(LineDebit, lines)) # SumSeq(SeqMap(LineCredit, lines))
        THEN Fail("InternalError", "Transaction does not add up to zero")
    ELSE [res |-> Passed, lines |-> lines, refundInfo |-> stripeRefundInfo,
          undo |-> <<[op |-> "itemNotes", id |-> Len(db.txns) + 1, item |-> 1,
                      status |-> ""],
                     [op |-> "routePassStatus", id |-> req.routePassId, item |-> 0,
                      status |-> lastStatus]>>,
          db |-> [tickets |-> db.tickets,
                  routePasses |-> [db.routePasses EXCEPT ![req.routePassId].status = "refunded"],
                  txns |-> Append(db.txns, [type |-> "refundPayment", committed |-> TRUE,
                                            items |-> lines])]]

\* the purchases the refunds are asked for: one pass or two, with and without
\* a promotion
RefundPurchases ==
    [userId : {1}, tag : {PassTag}, companyId : {1}, promoCode : {None, Some("TWENTY")},
     quantity : {Some(1), Some(2)}, value : {None}, dryRun : {FALSE}, expectedPrice : {None}]

\* the statuses a route pass can have come to since its purchase
PassStatuses == {"valid", "void", "expired", "refunded", "failed"}

\* the charge of the payment of a transaction as the gateway reports it, with
\* nothing or all of it refunded
ChargeOfTxn(db, transactionId, spent) ==
    LET paid == SumSeq(SeqMap(LineDebit, ItemsOf(db.txns[transactionId], "payment"))) \div 10000
    IN  [amount |-> paid, amount_refunded |-> IF spent THEN paid ELSE 0,
         source |-> [country |-> "SG", brand |-> "Visa"]]

InitPassRefund ==
    /\ val = ValIdle
    /\ win = WinIdle
    /\ last = LastIdle
    /\ OthersIdle
    /\ \E req \in RefundPurchases :
           \E out \in {purchaseRoutePass(req, [tickets |-> << >>, routePasses |-> << >>,
                                               txns |-> << >>])} :
               /\ tickets = out.db.tickets
               /\ txns = out.db.txns
               /\ \E status \in PassStatuses :
                      routePasses = [out.db.routePasses EXCEPT ![1].status = status]

PrepareRoutePassRefund ==
    /\ last.op = "none"
    /\ Len(txns) < MaxTxns
    /\ \E transactionId \in 1..Len(txns), routePassId \in 1..Len(routePasses),
          isMicro \in {None, Some(TRUE), Some(FALSE)}, spent \in BOOLEAN :
           \E item \in 1..Len(txns[transactionId].items) :
               \E req \in {[transactionId |-> transactionId, item |-> item,
                            routePassId |-> routePassId]} :
                   \E out \in {prepareRoutePassRefund(
                                   req, isMicro, ChargeOfTxn(DB, transactionId, spent), DB)} :
                       /\ tickets' = out.db.tickets
                       /\ routePasses' = out.db.routePasses
                       /\ txns' = out.db.txns
                       /\ last' = [op |-> "prepareRoutePassRefund", req |-> req,
                                   res |-> out.res, lines |-> out.lines,
                                   isMicro |-> isMicro, spent |-> spent,
                                   undo |-> out.undo,
                                   prior |-> routePasses[routePassId].status]
    /\ UNCHANGED <<val, win, fn, payments, charges, env>>

NextPassRefund == PrepareRoutePassRefund \/ RunUndo \/ ReturnToCaller

SpecPassRefund == InitPassRefund /\ [][NextPassRefund]_vars

\* the routePass items of the transaction written last
LastRoutePassItems == ItemsOf(txns[Len(txns)], "routePass")

\* C13: prepareRoutePassRefund refuses with a TransactionError, and writes
\* nothing, when the pass is not valid, void or expired; when it refunds, the
\* pass was one of these and is now refunded, and the refundPayment
\* transaction written holds one routePass item for the pass, with a debit of
\* the credit of the item refunded less the discountValue of the pass and
\* with notes.refundedTransactionId the transaction of that item; and
\* running the undo gives the pass the status it had just before the refund.
C13_PassRefund ==
    [][/\ (last'.op = "prepareRoutePassRefund" /\ last.op = "none") =>
              /\ ~(routePasses[last'.req.routePassId].status \in {"valid", "void", "expired"}) =>
                     /\ last'.res.status = "TransactionError"
                     /\ UNCHANGED <<tickets, routePasses, txns>>
              /\ last'.res.status # "ok" => UNCHANGED <<tickets, routePasses, txns>>
              /\ last'.res.status = "ok" =>
                     /\ routePasses[last'.req.routePassId].status \in {"valid", "void", "expired"}
                     /\ routePasses' = [routePasses EXCEPT
                                           ![last'.req.routePassId].status = "refunded"]
                     /\ Len(txns') = Len(txns) + 1
                     /\ SubSeq(txns', 1, Len(txns)) = txns
                     /\ txns'[Len(txns')].type = "refundPayment"
                     /\ LastRoutePassItems' =
                            <<[itemType |-> "routePass", itemId |-> last'.req.routePassId,
                               debit |-> txns[last'.req.transactionId].items[last'.req.item].credit
                                           - (IF routePasses[last'.req.routePassId].discountValue = None
                                                  THEN 0
                                                  ELSE routePasses[last'.req.routePassId].discountValue[1]),
                               credit |-> 0, companyId |-> 0,
                               notes |-> Some(last'.req.transactionId)]>>
       /\ (last'.op = "undo" /\ last.op = "prepareRoutePassRefund") =>
              /\ routePasses'[last.req.routePassId].status = last.prior
              /\ routePasses' = [routePasses EXCEPT ![last.req.routePassId].status = last.prior]
      ]_vars

\* an expired pass bought for 5.00 with 1.00 off was refunded 4.00 and the
\* refund undone: the pass is expired again
C13_Witness ==
    /\ last.op = "undo"
    /\ last.of = "prepareRoutePassRefund"
    /\ last.prior = "expired"
    /\ routePasses[last.req.routePassId].status = "expired"
    /\ routePasses[last.req.routePassId].discountValue = Some(Amt(1, 0))
    /\ LastRoutePassItems[1].debit = Amt(4, 0)

----------------------------------------------------------------------------
(* generateRefundInfo                                                      *)

\* the charges the gateway answers with: 0.00, 1.00, 5.00 or 10.00 charged, of
\* which nothing, 1.00 or 4.00 was refunded, on cards of two countries and
\* two brands
RefundInfoCharges ==
    {c \in [amount : {0, 100, 500, 1000}, amount_refunded : {0, 100, 400},
            source : [country : {"SG", "US"}, brand : {"Visa", "American Express"}]] :
        c.amount_refunded <= c.amount}

\* the amounts to refund: 0.30, 1.00, 1.000999 and 1.001001 (0.1 cent over
\* 1.00 less or more a millionth), 1.004, 1.0051, 5.00 and 10.00
RefundInfoAmounts ==
    {Amt(0, 30), Amt(1, 0), Amt(1, 0) + 999, Amt(1, 0) + 1001, Amt(1, 0) + 4000,
     Amt(1, 0) + 5100, Amt(5, 0), Amt(10, 0)}

InitRefundInfo ==
    /\ val = ValIdle
    /\ win = WinIdle
    /\ tickets = << >>
    /\ routePasses = << >>
    /\ txns = << >>
    /\ last = LastIdle
    /\ payments = << >>
    /\ charges = << >>
    /\ env = << >>
    /\ \E charge \in RefundInfoCharges, amount \in RefundInfoAmounts,
          isMicro \in {None, Some(TRUE), Some(FALSE)} :
           fn = [name |-> "generateRefundInfo",
                 args |-> [charge |-> charge, amount |-> amount, isMicro |-> isMicro],
                 out |-> None]

GenerateRefundInfo ==
    /\ fn.name = "generateRefundInfo"
    /\ fn.out = None
    /\ fn' = [fn EXCEPT !.out = Some(generateRefundInfo(fn.args.charge, fn.args.amount,
                                                        fn.args.isMicro))]
    /\ UNCHANGED <<val, win, tickets, routePasses, txns, last, payments, charges, env>>

NextRefundInfo == GenerateRefundInfo

SpecRefundInfo == InitRefundInfo /\ [][NextRefundInfo]_vars

RefundInfoDone == fn.name = "generateRefundInfo" /\ fn.out # None

\* what is left of the charge, in cents
RefundInfoBalance == fn.args.charge.amount - fn.args.charge.amount_refunded

\* Math.round(amount * 100) of the amount asked
RefundInfoCents == (fn.args.amount + 5000) \div 10000

\* C14: generateRefundInfo refuses with a TransactionError every amount that,
\* in cents, is more than 0.1 cent above what is left of the charge (amount
\* less amount_refunded); for every amount it accepts, the processing fee is
\* the hundredth of the fee on what is left less the fee on what is left
\* after round(amount * 100) cents are taken off, both with the isMicro given
\* and isLocalAndNonAmex of the source of the charge, and what is left after
\* the refund is not negative.
C14_RefundInfo ==
    RefundInfoDone =>
        /\ fn.args.amount > RefundInfoBalance * 10000 + 1000 =>
               fn.out[1].res.status = "TransactionError"
        /\ fn.out[1].res.status = "ok" =>
               /\ fn.out[1].processingFee =
                      10000 * (calculateAdminFeeInCents(
                                   RefundInfoBalance, fn.args.isMicro = Some(TRUE),
                                   isLocalAndNonAmex(fn.args.charge.source))
                               - calculateAdminFeeInCents(
                                     RefundInfoBalance - RefundInfoCents,
                                     fn.args.isMicro = Some(TRUE),
                                     isLocalAndNonAmex(fn.args.charge.source)))
               /\ RefundInfoBalance - RefundInfoCents >= 0
               /\ fn.out[1].balanceAmtCents = RefundInfoBalance
               /\ fn.out[1].amount = fn.args.amount

\* 1.000999 of a charge of 5.00 on a foreign card, 4.00 of it refunded
\* before, was accepted as a refund of 100 cents and leaves nothing
C14_Witness ==
    /\ RefundInfoDone
    /\ fn.out[1].res.status = "ok"
    /\ fn.args.amount = Amt(1, 0) + 999
    /\ fn.args.charge.amount = 500
    /\ fn.args.charge.amount_refunded = 400
    /\ fn.args.charge.source.country = "US"
    /\ fn.args.isMicro = Some(FALSE)
    /\ RefundInfoBalance - RefundInfoCents = 0
    /\ fn.out[1].processingFee = 10000 * 53

----------------------------------------------------------------------------
(* cancelSale                                                              *)

\* the tickets of the ticketSale items of a transaction
TicketsSoldBy(txn) ==
    {txn.items[i].itemId : i \in {j \in 1..Len(txn.items) : txn.items[j].itemType = "ticketSale"}}

\* cancelSale that looks for the transaction and not at its committed flag
cancelSaleOfAnyFound(transactionId, db) ==
    IF transactionId \notin 1..Len(db.txns)
        THEN [res |-> Thrown("TransactionError", "Transaction not found!"), db |-> db]
    ELSE LET dbTxn == db.txns[transactionId]
             ticketSale == TicketsSoldBy(dbTxn)
         IN  IF ~(\A id \in ticketSale : db.tickets[id].status = "valid")
                 THEN [res |-> Thrown("Error", "Not all tickets are committed"), db |-> db]
             ELSE [res |-> Passed,
                   db |-> [tickets |-> [id \in 1..Len(db.tickets) |->
                                           IF id \in ticketSale
                                               THEN [db.tickets[id] EXCEPT !.status = "failed"]
                                               ELSE db.tickets[id]],
                           routePasses |-> db.routePasses,
                           txns |-> [db.txns EXCEPT ![transactionId].committed = FALSE]]]

\* cancelSale(connection, transactionId), in one SERIALIZABLE database
\* transaction: what it wrote is kept only when it returns
cancelSale(transactionId, db) ==
    IF transactionId \notin 1..Len(db.txns) \/ db.txns[transactionId].committed = FALSE
        THEN [res |-> Thrown("TransactionError", "Transaction not found!"), db |-> db]
    ELSE LET dbTxn == db.txns[transactionId]
             ticketSale == TicketsSoldBy(dbTxn)
         IN  IF ~(\A id \in ticketSale : db.tickets[id].status = "valid")
                 THEN [res |-> Thrown("Error", "Not all tickets are committed"), db |-> db]
             ELSE [res |-> Passed,
                   db |-> [tickets |-> [id \in 1..Len(db.tickets) |->
                                           IF id \in ticketSale
                                               THEN [db.tickets[id] EXCEPT !.status = "failed"]
                                               ELSE db.tickets[id]],
                           routePasses |-> db.routePasses,
                           txns |-> [db.txns EXCEPT ![transactionId].committed = FALSE]]]

\* the sales cancelled: one ticket or two, committed or not
CancelSales ==
    {SaleRequest(t, DefaultChecks, None, FALSE, FALSE, c, None) :
        t \in {<<Order(1, 2, 21, 22)>>, <<Order(1, 1, 11, 12), Order(1, 2, 21, 22)>>},
        c \in BOOLEAN}

\* a sale, then perhaps a second sale to another user or the purchase of a
\* route pass, and perhaps a ticket voided since
InitCancel ==
    /\ val = ValIdle
    /\ win = WinIdle
    /\ last = LastIdle
    /\ OthersIdle
    /\ \E req \in CancelSales, then \in {"nothing", "sale", "pass"} :
           \E first \in {prepareTicketSale(req, Times.early,
                                          [tickets |-> << >>, routePasses |-> << >>,
                                           txns |-> << >>])} :
               \E out \in {CASE then = "nothing" -> first
                             [] then = "sale" ->
                                    prepareTicketSale(
                                        SaleRequest(<<Order(2, 1, 11, 12)>>, DefaultChecks, None,
                                                    FALSE, FALSE, TRUE, None),
                                        Times.early, first.db)
                             [] then = "pass" ->
                                    purchaseRoutePass(
                                        [userId |-> 1, tag |-> PassTag, companyId |-> 1,
                                         promoCode |-> None, quantity |-> Some(1),
                                         value |-> None, dryRun |-> FALSE,
                                         expectedPrice |-> None],
                                        first.db)} :
                   /\ \E voided \in {{}, {1}, {Len(out.db.tickets)}} :
                          tickets = [i \in 1..Len(out.db.tickets) |->
                                        IF i \in voided
                                            THEN [out.db.tickets[i] EXCEPT !.status = "void"]
                                            ELSE out.db.tickets[i]]
                   /\ routePasses = out.db.routePasses
                   /\ txns = out.db.txns

\* cancelSale is called for a transaction of the database or for one more
CancelSale ==
    \E transactionId \in 1..(Len(txns) + 1) :
        /\ last.op = "none"
        /\ \E out \in {cancelSale(transactionId, DB)} :
               /\ tickets' = out.db.tickets
               /\ routePasses' = out.db.routePasses
               /\ txns' = out.db.txns
               /\ last' = [op |-> "cancelSale", req |-> [transactionId |-> transactionId],
                           res |-> out.res]
        /\ UNCHANGED <<val, win, fn, payments, charges, env>>

NextCancel == CancelSale \/ ReturnToCaller

SpecCancel == InitCancel /\ [][NextCancel]_vars

\* the transaction exists, is committed and all the tickets it sold are valid
Cancellable(transactionId) ==
    /\ transactionId \in 1..Len(txns)
    /\ txns[transactionId].committed
    /\ \A id \in TicketsSoldBy(txns[transactionId]) : tickets[id].status = "valid"

\* C15: cancelSale of a committed transaction whose ticketSale tickets are
\* all valid leaves the transaction uncommitted and those tickets failed, and
\* changes nothing else; cancelSale of any other transaction (not there,
\* uncommitted, or with a ticket that is not valid) fails and changes
\* nothing; no transaction becomes committed again, so cancelSale of a
\* transaction that was cancelled fails.
C15_CancelSale ==
    [][/\ (last'.op = "cancelSale" /\ last.op = "none") =>
              IF Cancellable(last'.req.transactionId)
                  THEN /\ last'.res.status = "ok"
                       /\ txns' = [txns EXCEPT ![last'.req.transactionId].committed = FALSE]
                       /\ tickets' =
                              [id \in 1..Len(tickets) |->
                                  IF id \in TicketsSoldBy(txns[last'.req.transactionId])
                                      THEN [tickets[id] EXCEPT !.status = "failed"]
                                      ELSE tickets[id]]
                       /\ UNCHANGED routePasses
                  ELSE /\ last'.res.status # "ok"
                       /\ UNCHANGED <<tickets, routePasses, txns>>
       /\ \A i \in 1..Len(txns) :
              ~txns[i].committed => (Len(txns') >= i /\ ~txns'[i].committed)
      ]_vars

\* the cancellation of a sale of two tickets that was cancelled before was
\* refused: the transaction is uncommitted and its tickets are failed
C15_Witness ==
    /\ last.op = "cancelSale"
    /\ last.res.status = "TransactionError"
    /\ last.req.transactionId \in 1..Len(txns)
    /\ ~txns[last.req.transactionId].committed
    /\ Cardinality(TicketsSoldBy(txns[last.req.transactionId])) = 2
    /\ \A id \in TicketsSoldBy(txns[last.req.transactionId]) : tickets[id].status = "failed"

----------------------------------------------------------------------------
(* Strings.  A string is the sequence of its characters, so that substr,   *)
(* replace and a regular expression work on it as they do in JavaScript.  *)

Digits == <<"0", "1", "2", "3", "4", "5", "6", "7", "8", "9">>

\* String(n) of a number that is not negative
RECURSIVE NumberToString(_)
NumberToString(n) ==
    IF n < 10 THEN <<Digits[n + 1]>>
    ELSE NumberToString(n \div 10) \o <<Digits[(n % 10) + 1]>>

\* `${v}` of a value that may be undefined
Interpolate(v) ==
    IF v = None THEN <<"u", "n", "d", "e", "f", "i", "n", "e", "d">>
    ELSE v[1]

\* `${n}` of a number that may be undefined
InterpolateNumber(n) == IF n = None THEN Interpolate(None) ELSE NumberToString(n[1])

\* s.substr(start, length)
substr(s, start, length) == SubSeq(s, start + 1, Min2(Len(s), start + length))

\* s.replace(/[chars]/g, "")
replace(s, chars) == SelectSeq(s, LAMBDA ch : ch \notin chars)

\* whether s begins with the prefix
StartsWith(s, prefix) == Len(s) >= Len(prefix) /\ SubSeq(s, 1, Len(prefix)) = prefix

\* the characters . does not match
LineTerminators == {"\n", "\r"}

\* /^(Refund:)?instance=[^,]*,.*$/.test(key)
MatchesKeyFormat(key) ==
    LET refund == <<"R", "e", "f", "u", "n", "d", ":">>
        instance == <<"i", "n", "s", "t", "a", "n", "c", "e", "=">>
        rest == IF StartsWith(key, refund \o instance)
                    THEN SubSeq(key, Len(refund) + 1, Len(key))
                    ELSE key
    IN  /\ StartsWith(rest, instance)
        /\ \E i \in (Len(instance) + 1)..Len(rest) :
               /\ rest[i] = ","
               /\ \A j \in (Len(instance) + 1)..(i - 1) : rest[j] # ","
               /\ \A j \in (i + 1)..Len(rest) : rest[j] \notin LineTerminators

\* the characters a statement descriptor may not hold: < > " '
ForbiddenChars == {"<", ">", "\"", "'"}

----------------------------------------------------------------------------
(* Idempotency keys and the statement descriptor                           *)

\* a key of chargeSale that leaves the session out
ChargeKeyOfBooking(environment, transactionId, tokenIat) ==
    <<"i", "n", "s", "t", "a", "n", "c", "e", "=">> \o Interpolate(environment) \o <<",", "b", "o", "o", "k", "i", "n", "g", "I", "d", "=">>
        \o InterpolateNumber(transactionId)

\* the key of chargeSale
ChargeKey(environment, transactionId, tokenIat) ==
    <<"i", "n", "s", "t", "a", "n", "c", "e", "=">> \o Interpolate(environment) \o <<",", "b", "o", "o", "k", "i", "n", "g", "I", "d", "=">>
        \o InterpolateNumber(transactionId) \o <<",", "s", "e", "s", "s", "i", "o", "n", "=">> \o InterpolateNumber(tokenIat)

\* a key for the refund of a ticket that does not say what is refunded
TicketRefundKeyById(environment, ticket) ==
    <<"R", "e", "f", "u", "n", "d", ":", "i", "n", "s", "t", "a", "n", "c", "e", "=">> \o Interpolate(environment) \o <<",", "i", "d", "=">>
        \o NumberToString(ticket.id)

\* the key of prepareTicketRefund
TicketRefundKey(environment, ticket) ==
    <<"R", "e", "f", "u", "n", "d", ":", "i", "n", "s", "t", "a", "n", "c", "e", "=">> \o Interpolate(environment) \o <<",", "t", "i", "c", "k", "e", "t", "I", "d", "=">>
        \o NumberToString(ticket.id)

\* the key of prepareRoutePassRefund
RoutePassRefundKey(environment, routePass) ==
    <<"R", "e", "f", "u", "n", "d", ":", "i", "n", "s", "t", "a", "n", "c", "e", "=">> \o Interpolate(environment) \o <<",", "r", "o", "u", "t", "e", "P", "a", "s", "s", "I", "d", "=">>
        \o NumberToString(routePass.id)

\* a statement descriptor cleaned before the name is cut to ten characters
statementDescriptorCleanedFirst(companyInfo, transactionId) ==
    LET companyDescriptor == IF companyInfo.smsOpCode # None /\ companyInfo.smsOpCode[1] # << >>
                                 THEN companyInfo.smsOpCode[1]
                                 ELSE companyInfo.name[1]
    IN  substr(substr(replace(companyDescriptor, ForbiddenChars), 0, 10)
                   \o <<",", "R", "e", "f", "#">> \o InterpolateNumber(transactionId),
               0, 22)

\* the statement descriptor of chargeSale, of a company that has an
\* smsOpCode or a name
statementDescriptor(companyInfo, transactionId) ==
    LET companyDescriptor == IF companyInfo.smsOpCode # None /\ companyInfo.smsOpCode[1] # << >>
                                 THEN companyInfo.smsOpCode[1]
                                 ELSE companyInfo.name[1]
    IN  substr(replace(substr(companyDescriptor, 0, 10) \o <<",", "R", "e", "f", "#">>
                           \o InterpolateNumber(transactionId),
                       ForbiddenChars),
               0, 22)

----------------------------------------------------------------------------
(* chargeSale                                                              *)

\* table TransportCompany: the first company has a name with an apostrophe
\* and an account at the gateway, the second an smsOpCode and no account
TransportCompanies ==
    <<[name |-> Some(<<"O", "'", "R", "e", "i", "l", "l", "y", " ", "B", "u", "s", " ", "C", "o">>), smsOpCode |-> None,
       stripeCompanyId |-> Some("acct_1")],
      [name |-> Some(<<"S", "e", "c", "o", "n", "d">>), smsOpCode |-> Some(<<"B", "U", "S", "<", "2", ">">>),
       stripeCompanyId |-> None]>>

\* Payment.isMicro(amount in cents): under the gateway's threshold
MicroThresholdInCents == 1000

isMicro(amount) == amount # None /\ amount[1] < MicroThresholdInCents

\* a new row of table Payment
NewPayment == [paymentResource |-> None, data |-> None, options |-> None]

\* n.toFixed(2), which is also how a DECIMAL(10,2) column is read from the
\* database: the dollars, a point and two digits of cents
toFixed2(amount) ==
    NumberToString(amount \div 1000000)
        \o <<".", Digits[((amount \div 100000) % 10) + 1], Digits[((amount \div 10000) % 10) + 1]>>

\* a string value
String(text) == [isString |-> TRUE, text |-> text]

\* item.debit as the transaction object given to chargeSale holds it: the
\* string of the DECIMAL column, or the number the amount was computed as
HeldAmount(amount, held) ==
    IF held = "decimal" THEN String(toFixed2(amount)) ELSE Number(amount)

\* Payment.chargeCard(args) at a gateway that holds the charges it made by
\* idempotency key: a key it has seen is the same operation again; a new one
\* is charged, declined, or lost to the network, and one under the minimum
\* charge is refused.  madeFor keeps which call the charge was first made
\* for.
chargeCard(args, madeFor, answer, gateway) ==
    LET seen == {i \in 1..Len(gateway) : gateway[i].idempotencyKey = args.idempotencyKey}
        charge == [id |-> Some(Len(gateway) + 1), amount |-> Some(args.value \div 10000),
                   idempotencyKey |-> args.idempotencyKey,
                   statement_descriptor |-> args.statement_descriptor,
                   destination |-> args.destination, madeFor |-> madeFor]
    IN  IF seen # {}
            THEN [res |-> Passed, chargeResult |-> Some(gateway[CHOOSE i \in seen : TRUE]),
                  sent |-> Some(args), gateway |-> gateway]
        ELSE IF args.value < MinTransactionChargeInCents * 10000
            THEN [res |-> Thrown("ChargeError", "amount under the minimum charge"),
                  chargeResult |-> None, sent |-> Some(args), gateway |-> gateway]
        ELSE IF answer = "ok"
            THEN [res |-> Passed, chargeResult |-> Some(charge), sent |-> Some(args),
                  gateway |-> Append(gateway, charge)]
        ELSE [res |-> Thrown("ChargeError", answer), chargeResult |-> None,
              sent |-> Some(args), gateway |-> gateway]

\* the try block of chargeSale up to the charge
chargeSaleAttempt(options, answer, txnTable, gateway, environment) ==
    LET Threw(kind, what) ==
            [res |-> Thrown(kind, what), chargeResult |-> None, sent |-> None,
             gateway |-> gateway]
    IN
    IF ~options.models THEN Threw("AssertionError", "options.models")
    ELSE IF options.transaction = None THEN Threw("AssertionError", "options.transaction")
    ELSE IF ~options.paymentDescription
        THEN Threw("AssertionError", "options.paymentDescription")
    ELSE IF options.stripeToken = None /\ ~options.saved
        THEN Threw("AssertionError",
                   "Either stripe token or saved payment info should be set")
    ELSE LET transaction == txnTable[options.transaction[1]]
             payment == ItemsOf(transaction, "payment")
             transfer == ItemsOf(transaction, "transfer")
         IN
         IF payment = << >> THEN Threw("TypeError", "txnGroups.payment is undefined")
         ELSE IF Len(payment) # 1 THEN Threw("AssertionError", "An internal server error occurred.")
         ELSE IF transfer = << >> THEN Threw("TypeError", "txnGroups.transfer is undefined")
         ELSE IF Len(transfer) # 1 THEN Threw("AssertionError", "An internal server error occurred.")
         ELSE IF transfer[1].companyId \notin 1..Len(TransportCompanies)
             THEN Threw("AssertionError", "An internal server error occurred.")
         ELSE LET companyInfo == TransportCompanies[transfer[1].companyId]
                  paymentValue == HeldAmount(payment[1].debit, options.amounts)
              IN
              IF companyInfo.stripeCompanyId = None
                  THEN Threw("AssertionError", "An internal server error occurred.")
              ELSE IF paymentValue = String(<<"0", ".", "0", "0">>)
                  THEN [res |-> Passed,
                        chargeResult |-> Some([id |-> None, amount |-> None,
                                               idempotencyKey |-> << >>,
                                               statement_descriptor |-> << >>,
                                               destination |-> "",
                                               madeFor |-> [transactionId |-> 0,
                                                            tokenIat |-> None]]),
                        sent |-> None, gateway |-> gateway]
              ELSE chargeCard(
                       [value |-> payment[1].debit,
                        statement_descriptor |->
                            statementDescriptor(companyInfo, options.transaction),
                        destination |-> companyInfo.stripeCompanyId[1],
                        idempotencyKey |->
                            ChargeKey(environment, options.transaction, options.tokenIat),
                        source |-> IF options.stripeToken # None THEN options.stripeToken[1]
                                   ELSE "saved"],
                       [transactionId |-> options.transaction[1], tokenIat |-> options.tokenIat],
                       answer, gateway)

\* chargeSale(options): the charge, then the update of the Payment row; and
\* the catch block, which writes the error on the Payment row and throws a
\* ChargeError.  answer is what the gateway does with a new charge;
\* database says whether the update of the try block and that of the catch
\* block go through.
chargeSale(options, answer, database, txnTable, paymentTable, gateway, environment) ==
    LET attempt == chargeSaleAttempt(options, answer, txnTable, gateway, environment)
        error == IF attempt.res.status # "ok" THEN attempt.res
                 ELSE Thrown("DatabaseError", "the update of Payment failed")
        paymentId == options.transaction[1]
        Caught ==
            IF ~options.models
                THEN [res |-> Thrown("TypeError", "models is undefined"),
                      payments |-> paymentTable]
            ELSE IF options.transaction = None
                THEN [res |-> Thrown("TypeError", "transaction is undefined"),
                      payments |-> paymentTable]
            ELSE IF ItemsOf(txnTable[options.transaction[1]], "payment") = << >>
                THEN [res |-> Thrown("TypeError", "txnGroups.payment is undefined"),
                      payments |-> paymentTable]
            ELSE IF ~database.second
                THEN [res |-> Thrown("DatabaseError", "the update of Payment failed"),
                      payments |-> paymentTable]
            ELSE [res |-> Thrown("ChargeError", error.error),
                  payments |-> [paymentTable EXCEPT
                                   ![paymentId].data = Some([kind |-> "error",
                                                             value |-> error])]]
    IN  IF attempt.res.status = "ok" /\ database.first
            THEN [res |-> Passed, sent |-> attempt.sent, gateway |-> attempt.gateway,
                  payments |->
                      [paymentTable EXCEPT
                          ![paymentId] =
                              [paymentResource |-> attempt.chargeResult[1].id,
                               data |-> Some([kind |-> "charge",
                                              value |-> attempt.chargeResult[1]]),
                               options |-> Some([isMicro |->
                                                    isMicro(attempt.chargeResult[1].amount)])]]]
        ELSE [res |-> Caught.res, sent |-> attempt.sent, gateway |-> attempt.gateway,
              payments |-> Caught.payments]

\* process.env.TEST_IDEMPOTENCY: not set, empty, a tag, a tag with a comma
Environments == {None, Some(<< >>), Some(<<"t", "1">>), Some(<<"a", ",", "b">>)}

\* the tags of the deployments that charge
ChargeEnvironments == {Some(<<"t", "1">>), Some(<<"a", ",", "b">>)}

\* the options of a call that is in order; amounts is how the transaction
\* object holds its amounts
GoodOptions(transactionId, tokenIat) ==
    [models |-> TRUE, transaction |-> Some(transactionId), amounts |-> "decimal",
     paymentDescription |-> TRUE, stripeToken |-> Some("tok_1"), saved |-> FALSE,
     tokenIat |-> Some(tokenIat)]

\* the calls of chargeSale: calls in order for each transaction and session,
\* charged or declined; for the first transaction, calls that lack one of the
\* options, a call the network fails, and calls during which an update of
\* the database fails
ChargeCalls(n) ==
    {[options |-> GoodOptions(t, iat), answer |-> a,
      database |-> [first |-> TRUE, second |-> TRUE]] :
        t \in 1..n, iat \in {1, 2}, a \in {"ok", "declined"}}
    \cup
    {[options |-> o, answer |-> "ok", database |-> [first |-> TRUE, second |-> TRUE]] :
        o \in {[GoodOptions(1, 1) EXCEPT !.models = FALSE],
               [GoodOptions(1, 1) EXCEPT !.transaction = None],
               [GoodOptions(1, 1) EXCEPT !.paymentDescription = FALSE],
               [GoodOptions(1, 1) EXCEPT !.stripeToken = None],
               [GoodOptions(1, 1) EXCEPT !.stripeToken = None, !.saved = TRUE],
               [GoodOptions(1, 1) EXCEPT !.tokenIat = None]}}
    \cup
    {[options |-> GoodOptions(1, 1), answer |-> "network failure",
      database |-> [first |-> TRUE, second |-> TRUE]]}
    \cup
    {[options |-> GoodOptions(1, 1), answer |-> "ok", database |-> d] :
        d \in {[first |-> FALSE, second |-> TRUE], [first |-> FALSE, second |-> FALSE]}}

ChargeOrder(userId, tripId) ==
    SaleRequest(<<Order(userId, tripId, 10 * tripId + 1, 10 * tripId + 2)>>, DefaultChecks,
                None, FALSE, FALSE, TRUE, None)

\* the sales to charge: one of 10.00, one of 10.00 and one of 5.00, one of
\* 0.30 that needs no payment, and one of 0.60 of the second company
ChargeSales ==
    {<<ChargeOrder(1, 2)>>, <<ChargeOrder(1, 2), ChargeOrder(2, 1)>>, <<ChargeOrder(1, 3)>>,
     <<SaleRequest(<<Order(1, 3, 31, 32), Order(2, 3, 31, 32)>>, DefaultChecks, None, FALSE,
                   FALSE, TRUE, None)>>}

RECURSIVE AfterSales(_, _)
AfterSales(sales, db) ==
    IF sales = << >> THEN db
    ELSE AfterSales(Tail(sales), prepareTicketSale(Head(sales), Times.early, db).db)

InitCharge ==
    /\ val = ValIdle
    /\ win = WinIdle
    /\ last = LastIdle
    /\ fn = FnIdle
    /\ charges = << >>
    /\ env \in ChargeEnvironments
    /\ \E sales \in ChargeSales :
           \E db \in {AfterSales(sales, [tickets |-> << >>, routePasses |-> << >>,
                                         txns |-> << >>])} :
               /\ tickets = db.tickets
               /\ routePasses = db.routePasses
               /\ txns = db.txns
               /\ payments = [i \in 1..Len(db.txns) |-> NewPayment]

ChargeSale ==
    \E call \in ChargeCalls(Len(txns)) :
        /\ last.op = "none"
        /\ \E out \in {chargeSale(call.options, call.answer, call.database, txns, payments,
                                  charges, env)} :
               /\ payments' = out.payments
               /\ charges' = out.gateway
               /\ last' = [op |-> "chargeSale", req |-> call, res |-> out.res,
                           sent |-> out.sent, chargesBefore |-> Len(charges)]
        /\ UNCHANGED <<val, win, tickets, routePasses, txns, fn, env>>

NextCharge == ChargeSale \/ ReturnToCaller

SpecCharge == InitCharge /\ [][NextCharge]_vars


ChargeCalled == last.op = "chargeSale"

\* the charges the gateway made for a transaction and a session
ChargesMadeFor(gateway, transactionId, tokenIat) ==
    {i \in 1..Len(gateway) :
        gateway[i].madeFor = [transactionId |-> transactionId, tokenIat |-> tokenIat]}

\* C16: whenever chargeSale sends a charge to the gateway, the charges the
\* gateway holds under the key sent are exactly those made for the same
\* transaction id and tokenIat: a call with the same two sends the key of the
\* earlier call, a call that differs in one of them a different key.  The
\* gateway therefore holds at most one charge per transaction id and
\* tokenIat, exactly one once a call for them has succeeded, and a repeated
\* call adds none.
C16_OneCharge ==
    [][(last'.op = "chargeSale" /\ last.op = "none" /\ last'.sent # None) =>
          LET t == last'.req.options.transaction[1]
              iat == last'.req.options.tokenIat
          IN  /\ \A i \in 1..Len(charges') :
                     (charges'[i].idempotencyKey = last'.sent[1].idempotencyKey)
                         <=> (charges'[i].madeFor = [transactionId |-> t, tokenIat |-> iat])
              /\ Cardinality(ChargesMadeFor(charges', t, iat)) <= 1
              /\ last'.res.status = "ok" => Cardinality(ChargesMadeFor(charges', t, iat)) = 1
              /\ ChargesMadeFor(charges, t, iat) # {} => charges' = charges
              /\ SubSeq(charges', 1, Len(charges)) = charges]_vars

\* the second transaction was charged a second time in session 1 under the
\* key instance=t1,bookingId=2,session=1 and the gateway made no new charge
C16_Witness ==
    /\ ChargeCalled
    /\ last.res.status = "ok"
    /\ last.sent # None
    /\ last.sent[1].idempotencyKey = <<"i", "n", "s", "t", "a", "n", "c", "e", "=", "t", "1", ",", "b", "o", "o", "k", "i", "n", "g", "I", "d", "=", "2", ",", "s", "e", "s", "s", "i", "o", "n", "=", "1">>
    /\ last.chargesBefore = Len(charges)
    /\ Cardinality(ChargesMadeFor(charges, 2, Some(1))) = 1
    /\ Len(charges) >= 2


\* C18 as stated: a chargeSale that succeeds leaves the Payment row of the
\* transaction with the id of the charge as paymentResource, the charge as
\* data and options.isMicro; a chargeSale that fails, whatever made it fail,
\* throws a ChargeError and, for the transaction it was given, leaves the
\* error as data of the Payment row and paymentResource as it was.
C18_AsStated ==
    [][(last'.op = "chargeSale" /\ last.op = "none") =>
          IF last'.res.status = "ok"
              THEN LET row == payments'[last'.req.options.transaction[1]]
                   IN  /\ row.data # None
                       /\ row.data[1].kind = "charge"
                       /\ row.paymentResource = row.data[1].value.id
                       /\ row.options = Some([isMicro |-> isMicro(row.data[1].value.amount)])
              ELSE /\ last'.res.status = "ChargeError"
                   /\ last'.req.options.transaction # None =>
                          LET t == last'.req.options.transaction[1]
                          IN  /\ payments'[t].data # None
                              /\ payments'[t].data[1].kind = "error"
                              /\ payments'[t].paymentResource = payments[t].paymentResource
                              /\ \A u \in 1..Len(payments) : u # t => payments'[u] = payments[u]
      ]_vars


----------------------------------------------------------------------------
(* The idempotency keys of chargeSale and of the refunds                   *)

\* the tickets and the route passes refunds are asked for, and the
\* transactions and sessions charged
KeyTickets == [id : {1, 2, 12}, status : {"valid", "void"}]

KeyRoutePasses == [id : {1, 12}, status : {"valid", "expired"}]

KeyCharges == [transactionId : {1, 12}, tokenIat : {None, Some(1), Some(11)}]

InitKeys ==
    /\ val = ValIdle
    /\ win = WinIdle
    /\ tickets = << >>
    /\ routePasses = << >>
    /\ txns = << >>
    /\ last = LastIdle
    /\ payments = << >>
    /\ charges = << >>
    /\ env \in Environments
    /\ fn = [name |-> "keys", built |-> << >>]

\* a call builds its key; the keys of two calls are kept, each with the id
\* and the status of what the call was for
KeyBuilt(by, id, status, key) ==
    /\ fn.name = "keys"
    /\ Len(fn.built) < 2
    /\ fn' = [fn EXCEPT !.built = Append(@, [by |-> by, id |-> id, status |-> status,
                                                key |-> key])]
    /\ UNCHANGED <<val, win, tickets, routePasses, txns, last, payments, charges, env>>

BuildChargeKey ==
    \E c \in KeyCharges :
        KeyBuilt("chargeSale", c.transactionId, "",
                 ChargeKey(env, Some(c.transactionId), c.tokenIat))

BuildTicketRefundKey ==
    \E ticket \in KeyTickets :
        KeyBuilt("prepareTicketRefund", ticket.id, ticket.status, TicketRefundKey(env, ticket))

BuildRoutePassRefundKey ==
    \E routePass \in KeyRoutePasses :
        KeyBuilt("prepareRoutePassRefund", routePass.id, routePass.status,
                 RoutePassRefundKey(env, routePass))

NextKeys == BuildChargeKey \/ BuildTicketRefundKey \/ BuildRoutePassRefundKey

SpecKeys == InitKeys /\ [][NextKeys]_vars

KeysBuilt == IF fn.name = "keys" THEN fn.built ELSE << >>

\* C17: every key built by chargeSale, prepareTicketRefund and
\* prepareRoutePassRefund matches ^(Refund:)?instance=[^,]*,.*$; the key of a
\* ticket refund is Refund:instance=<env>,ticketId=<id> and that of a route
\* pass refund Refund:instance=<env>,routePassId=<id>, so two refunds of the
\* same ticket, or of the same route pass, have the same key whatever the
\* status of what is refunded, and the key of a ticket refund is never that
\* of a route pass refund.
C17_KeyFormat ==
    /\ \A i \in 1..Len(KeysBuilt) :
           LET e == KeysBuilt[i]
           IN  /\ MatchesKeyFormat(e.key)
               /\ e.by = "prepareTicketRefund" =>
                      e.key = <<"R", "e", "f", "u", "n", "d", ":", "i", "n", "s", "t", "a", "n", "c", "e", "=">> \o Interpolate(env)
                                  \o <<",", "t", "i", "c", "k", "e", "t", "I", "d", "=">> \o NumberToString(e.id)
               /\ e.by = "prepareRoutePassRefund" =>
                      e.key = <<"R", "e", "f", "u", "n", "d", ":", "i", "n", "s", "t", "a", "n", "c", "e", "=">> \o Interpolate(env)
                                  \o <<",", "r", "o", "u", "t", "e", "P", "a", "s", "s", "I", "d", "=">> \o NumberToString(e.id)
    /\ \A i, j \in 1..Len(KeysBuilt) :
           LET a == KeysBuilt[i]
               b == KeysBuilt[j]
           IN  /\ (a.by = b.by /\ a.by # "chargeSale" /\ a.id = b.id) => a.key = b.key
               /\ (a.by = "prepareTicketRefund" /\ b.by = "prepareRoutePassRefund")
                      => a.key # b.key

\* with the tag a,b, the refund of ticket 12 had the key
\* Refund:instance=a,b,ticketId=12 and the refund of route pass 12 the key
\* Refund:instance=a,b,routePassId=12
C17_Witness ==
    /\ Len(KeysBuilt) = 2
    /\ KeysBuilt[1].by = "prepareTicketRefund"
    /\ KeysBuilt[1].status = "void"
    /\ KeysBuilt[1].key = <<"R", "e", "f", "u", "n", "d", ":", "i", "n", "s", "t", "a", "n", "c", "e", "=", "a", ",", "b", ",", "t", "i", "c", "k", "e", "t", "I", "d", "=", "1", "2">>
    /\ KeysBuilt[2].by = "prepareRoutePassRefund"
    /\ KeysBuilt[2].key = <<"R", "e", "f", "u", "n", "d", ":", "i", "n", "s", "t", "a", "n", "c", "e", "=", "a", ",", "b", ",", "r", "o", "u", "t", "e", "P", "a", "s", "s", "I", "d", "=", "1", "2">>
    /\ MatchesKeyFormat(KeysBuilt[1].key)


----------------------------------------------------------------------------
(* The statement descriptor of chargeSale                                  *)

\* names and smsOpCodes of companies: with and without the characters that
\* are not allowed, shorter and longer than ten characters
CompanyNames ==
    {<<"O", "'", "R", "e", "i", "l", "l", "y", " ", "B", "u", "s", " ", "C", "o">>,
     <<"P", "l", "a", "i", "n">>,
     <<"<", "B", "e", "s", "t", ">", " ", "\"", "B", "u", "s", "\"", " ", "L", "i", "n", "e", "s">>,
     <<"A", "B", "C", "D", "E", "F", "G", "H", "I", "J", "K", "L", "M">>,
     << >>}

CompanySmsOpCodes ==
    {None, Some(<< >>), Some(<<"B", "U", "S", "<", "2", ">">>),
     Some(<<"B", "E", "E", "L", "I", "N", "E", "S", "G", "'", "1", "X">>)}

\* ids of one, two, seven, eight and ten digits
DescriptorTransactionIds == {7, 12, 1234567, 12345678, 1234567890}

InitDescriptor ==
    /\ val = ValIdle
    /\ win = WinIdle
    /\ tickets = << >>
    /\ routePasses = << >>
    /\ txns = << >>
    /\ last = LastIdle
    /\ payments = << >>
    /\ charges = << >>
    /\ env = << >>
    /\ \E name \in CompanyNames, smsOpCode \in CompanySmsOpCodes,
          transactionId \in DescriptorTransactionIds :
           fn = [name |-> "statementDescriptor",
                 args |-> [companyInfo |-> [name |-> Some(name), smsOpCode |-> smsOpCode],
                           transactionId |-> transactionId],
                 out |-> None]

StatementDescriptor ==
    /\ fn.name = "statementDescriptor"
    /\ fn.out = None
    /\ fn' = [fn EXCEPT !.out = Some(statementDescriptor(fn.args.companyInfo,
                                                         Some(fn.args.transactionId)))]
    /\ UNCHANGED <<val, win, tickets, routePasses, txns, last, payments, charges, env>>

NextDescriptor == StatementDescriptor

SpecDescriptor == InitDescriptor /\ [][NextDescriptor]_vars

DescriptorDone == fn.name = "statementDescriptor" /\ fn.out # None

\* smsOpCode, or else name
DescriptorCompany ==
    IF fn.args.companyInfo.smsOpCode # None /\ fn.args.companyInfo.smsOpCode[1] # << >>
        THEN fn.args.companyInfo.smsOpCode[1]
        ELSE fn.args.companyInfo.name[1]

DescriptorRef == <<",", "R", "e", "f", "#">> \o NumberToString(fn.args.transactionId)

FirstChars(s, n) == SubSeq(s, 1, IF Len(s) < n THEN Len(s) ELSE n)

Allowed(s) == SelectSeq(s, LAMBDA ch : ch \notin {"<", ">", "\"", "'"})

\* C19 as stated: the statement descriptor has at most 22 characters, none
\* of them < > " or ', and is what is left after 22 characters of: the
\* company's smsOpCode or else its name with those characters removed, cut
\* to its first 10 characters, followed by ,Ref# and the transaction id.
C19_AsStated ==
    DescriptorDone =>
        /\ Len(fn.out[1]) <= 22
        /\ \A i \in 1..Len(fn.out[1]) : fn.out[1][i] \notin {"<", ">", "\"", "'"}
        /\ fn.out[1] = FirstChars(FirstChars(Allowed(DescriptorCompany), 10) \o DescriptorRef, 22)

\* C19 amended: the statement descriptor has at most 22 characters, none of
\* them < > " or ', and is what is left after 22 characters of: the first 10
\* characters of the company's smsOpCode or else its name, followed by ,Ref#
\* and the transaction id, with the characters < > " ' removed from the
\* whole.
C19_Amended ==
    DescriptorDone =>
        /\ Len(fn.out[1]) <= 22
        /\ \A i \in 1..Len(fn.out[1]) : fn.out[1][i] \notin {"<", ">", "\"", "'"}
        /\ fn.out[1] = FirstChars(Allowed(FirstChars(DescriptorCompany, 10) \o DescriptorRef), 22)

\* the descriptor of transaction 12 of O'Reilly Bus Co is OReilly B,Ref#12:
\* nine characters of the name, not ten
C19_Witness ==
    /\ DescriptorDone
    /\ fn.args.companyInfo.smsOpCode = None
    /\ fn.args.companyInfo.name = Some(<<"O", "'", "R", "e", "i", "l", "l", "y", " ", "B", "u", "s", " ", "C", "o">>)
    /\ fn.args.transactionId = 12
    /\ fn.out[1] = <<"O", "R", "e", "i", "l", "l", "y", " ", "B", ",", "R", "e", "f", "#", "1", "2">>


----------------------------------------------------------------------------
(* absorbSmallPayments                                                     *)

\* the carts whose builders are handed to absorbSmallPayments: tickets of
\* 0.30, 5.00 and 10.00 for one to three users
AbsorbCarts ==
    {<<Order(1, 3, 31, 32)>>,
     <<Order(1, 3, 31, 32), Order(2, 3, 31, 32)>>,
     <<Order(1, 3, 31, 32), Order(2, 3, 31, 32), Order(3, 3, 31, 32)>>,
     <<Order(1, 1, 11, 12)>>,
     <<Order(1, 1, 11, 12), Order(1, 3, 31, 32)>>,
     <<Order(1, 3, 31, 32), Order(1, 1, 11, 12)>>,
     <<Order(1, 1, 11, 12), Order(1, 3, 31, 32), Order(2, 3, 31, 32)>>,
     <<Order(1, 2, 21, 22)>>,
     <<Order(2, 1, 11, 12), Order(2, 3, 31, 32)>>,
     <<Order(3, 3, 31, 32)>>,
     <<Order(1, 2, 21, 22), Order(1, 3, 31, 32)>>,
     <<Order(2, 1, 11, 12)>>,
     <<Order(1, 1, 11, 12), Order(2, 1, 11, 12)>>}

\* the route passes of the users when the builder is made: none, or a valid
\* one of user 1
AbsorbPasses ==
    {<< >>,
     <<[userId |-> 1, companyId |-> 1, tag |-> PassTag, status |-> "valid",
        price |-> PassPrice, discountValue |-> None]>>}

\* the builder of a cart after the route passes and the promotion
BuilderOf(cart, passTable, promoCode, dryRun) ==
    LET init == initBuilderWithTicketSale(dryRun, TRUE, cart, << >>).tb
        passes == applyRoutePasses(init, routePassTagsFrom(init.items), passTable).tb
    IN  IF promoCode = None THEN passes ELSE applyPromoCode(passes, promoCode[1]).tb

InitAbsorb ==
    /\ val = ValIdle
    /\ win = WinIdle
    /\ tickets = << >>
    /\ routePasses = << >>
    /\ txns = << >>
    /\ last = LastIdle
    /\ payments = << >>
    /\ charges = << >>
    /\ env = << >>
    /\ \E cart \in AbsorbCarts, passTable \in AbsorbPasses,
          promoCode \in {None, Some("TWENTY")}, dryRun \in BOOLEAN :
           fn = [name |-> "absorbSmallPayments",
                 args |-> [tb |-> BuilderOf(cart, passTable, promoCode, dryRun)],
                 out |-> None]

AbsorbSmallPayments ==
    /\ fn.name = "absorbSmallPayments"
    /\ fn.out = None
    /\ fn' = [fn EXCEPT !.out = Some(absorbSmallPayments(fn.args.tb))]
    /\ UNCHANGED <<val, win, tickets, routePasses, txns, last, payments, charges, env>>

NextAbsorb == AbsorbSmallPayments

SpecAbsorb == InitAbsorb /\ [][NextAbsorb]_vars

AbsorbDone == fn.name = "absorbSmallPayments" /\ fn.out # None

\* the excess credit of the builder handed in
AbsorbExcess ==
    SumSeq(SeqMap(EntryCredit, fn.args.tb.items))
        - SumSeq(SeqMap(LineDebit, fn.args.tb.discount))

----------------------------------------------------------------------------
(* Properties of prepareTicketSale and purchaseRoutePass                   *)

SaleCalled == last.op = "prepareTicketSale"

SaleBuilt == SaleCalled /\ last.res.status = "ok"

SaleOrders == last.req.trips

SaleTripIds == {SaleOrders[i].tripId : i \in 1..Len(SaleOrders)}

SalePrices == [i \in 1..Len(SaleOrders) |-> Trips[SaleOrders[i].tripId].price]

LinesOfType(type) == SelectSeq(last.lines, LAMBDA l : l.itemType = type)

\* the ticket rows as they were when the call started: a call changes no row
\* that was there before it
TicketsBefore == SubSeq(tickets, 1, last.before.tickets)

SaleSimple == SaleBuilt /\ last.req.promoCode = None /\ ~last.req.applyRoutePass

\* one ticketSale credit per trip, of the trip's price, in the order of the
\* request, then a payment debit, a transfer credit to the company of the
\* route of the first trip, and an account debit, each of the sum of the prices
SimpleSaleLines ==
    LET n == Len(SaleOrders)
        total == SumSeq(SalePrices)
        first == CHOOSE t \in SaleTripIds : \A u \in SaleTripIds : t <= u
    IN  /\ Len(last.lines) = n + 3
        /\ \A i \in 1..n :
               /\ last.lines[i].itemType = "ticketSale"
               /\ last.lines[i].credit = SalePrices[i]
               /\ last.lines[i].debit = 0
        /\ last.lines[n + 1].itemType = "payment"
        /\ last.lines[n + 1].debit = total
        /\ last.lines[n + 1].credit = 0
        /\ last.lines[n + 2].itemType = "transfer"
        /\ last.lines[n + 2].credit = total
        /\ last.lines[n + 2].debit = 0
        /\ last.lines[n + 2].companyId = Trips[first].route.transportCompanyId
        /\ last.lines[n + 3].itemType = "account"
        /\ last.lines[n + 3].debit = total
        /\ last.lines[n + 3].credit = 0

PriceCalled == last.op \in {"prepareTicketSale", "purchaseRoutePass"}

PriceGiven == last.req.expectedPrice # None /\ last.req.expectedPrice[1].isNumber

PriceGap == Abs(last.req.expectedPrice[1].n - last.due[1])

PriceChanged ==
    /\ last.res.status = "TransactionError"
    /\ last.res.error = "The price has changed since you last viewed it"

\* C3: a call that is given an expected price is accepted only when the
\* payment debit it came to (0 when there is no payment item) is less than
\* 0.001 from that price, and a call that came to a payment 0.001 or more
\* from the expected price throws "price has changed" and builds nothing; a
\* call with no expected price never throws that.
C3_ExpectedPrice ==
    PriceCalled =>
        /\ (last.res.status = "ok" /\ last.req.expectedPrice # None) =>
               /\ PriceGiven
               /\ last.due # None
               /\ PriceGap < PriceTolerance
               /\ last.due[1] = SumSeq(SeqMap(LineDebit, LinesOfType("payment")))
        /\ (PriceGiven /\ last.due # None) =>
               IF PriceGap < PriceTolerance
                   THEN ~PriceChanged
                   ELSE /\ PriceChanged
                        /\ last.lines = << >>
                        /\ Len(txns) = last.before.txns
                        /\ Len(tickets) = last.before.tickets
                        /\ routePasses = last.before.routePasses
        /\ last.req.expectedPrice = None => ~PriceChanged

\* a sale whose price is all covered by a discount was accepted with an
\* expected price of 0
C3_Witness ==
    /\ SaleBuilt
    /\ last.req.expectedPrice = Dollars(0, 0)
    /\ LinesOfType("payment") = << >>
    /\ LinesOfType("discount") # << >>

AllRunning == \A t \in SaleTripIds : Trips[t].isRunning

OrderStopsValid(o) ==
    /\ \E i \in 1..Len(Trips[o.tripId].tripStops) : Trips[o.tripId].tripStops[i].id = o.boardStopId
    /\ \E i \in 1..Len(Trips[o.tripId].tripStops) : Trips[o.tripId].tripStops[i].id = o.alightStopId

AllStopsValid == \A i \in 1..Len(SaleOrders) : OrderStopsValid(SaleOrders[i])

\* the tickets a user held on a trip when the call started
HeldTickets(o) ==
    {i \in 1..Len(TicketsBefore) :
        /\ TicketsBefore[i].userId = o.userId
        /\ TicketsBefore[i].tripId = o.tripId
        /\ TicketsBefore[i].status \in {"valid", "pending"}}

\* C4 as stated: with noDuplicates on, a request for a running trip with
\* stops of the trip, made before the booking window closes, by a user who
\* holds a valid or pending ticket on the trip, is refused with a
\* TransactionError that names such a ticket.
C4_AsStated ==
    (/\ SaleCalled
     /\ last.req.checks.noDuplicates
     /\ AllRunning
     /\ AllStopsValid
     /\ last.now = Times.early
     /\ \E i \in 1..Len(SaleOrders) : HeldTickets(SaleOrders[i]) # {})
        => /\ last.res.status = "TransactionError"
           /\ last.res.error = "User already has ticket for the trip"
           /\ \E i \in 1..Len(SaleOrders) : last.res.ticketId \in HeldTickets(SaleOrders[i])

\* C5 as stated: with ensureAvailability on, no sale is built that leaves a
\* booked trip with fewer than 0 seats available.
C5_AsStated ==
    (SaleBuilt /\ ~last.req.dryRun /\ last.req.checks.ensureAvailability)
        => \A t \in SaleTripIds : seatsAvailable(t, tickets) >= 0

\* C6 as stated: the trips of a sale that is built all belong to one
\* transport company.
C6_AsStated ==
    SaleBuilt => Cardinality({Trips[t].route.transportCompanyId : t \in SaleTripIds}) = 1

\* C8 as stated: a request with a boarding or alighting stop that is not a
\* stop of its trip is refused with a TransactionError, whatever the
\* bookingWindow option.
C8_AsStated ==
    (SaleCalled /\ ~AllStopsValid) => last.res.status = "TransactionError"

\* C9: a request with a trip that is not running is refused with "Trip has
\* been cancelled" as the first of the checks: no other check has answered,
\* no route pass is redeemed, no promotion applied, nothing built or saved.
C9_NotRunning ==
    [][(last'.op = "prepareTicketSale" /\ last.op = "none"
            /\ \E i \in 1..Len(last'.req.trips) : ~Trips[last'.req.trips[i].tripId].isRunning)
        => /\ last'.res.status = "TransactionError"
           /\ last'.res.error = "Trip has been cancelled"
           /\ last'.steps = <<"init", "checks">>
           /\ last'.lines = << >>
           /\ UNCHANGED <<tickets, routePasses, txns>>]_vars

\* a request for a trip that is not running, with a promo code, to be paid
\* with the valid route pass the user holds, was refused as cancelled
C9_Witness ==
    /\ SaleCalled
    /\ ~AllRunning
    /\ last.res.error = "Trip has been cancelled"
    /\ last.req.applyRoutePass
    /\ last.req.promoCode # None
    /\ \E i \in 1..Len(routePasses) :
           routePasses[i].status = "valid" /\ routePasses[i].userId = SaleOrders[1].userId

----------------------------------------------------------------------------
(* Properties of purchaseRoutePass                                         *)

PurchaseCalled == last.op = "purchaseRoutePass"

PurchaseBuilt == PurchaseCalled /\ last.res.status = "ok"

\* exactly one of quantity and value was supplied; 0 counts as not supplied
OneOfQuantityAndValue ==
    (Truthy(last.req.quantity) /\ ~Truthy(last.req.value))
        \/ (~Truthy(last.req.quantity) /\ Truthy(last.req.value))

\* the whole number nearest to value / price
NearestQuantity(value, price) ==
    CHOOSE k \in 0..(value \div price + 1) :
        /\ 2 * (value - k * price) <= price
        /\ 2 * (k * price - value) < price

\* the number of passes the purchase is for
PurchasedQuantity ==
    IF Truthy(last.req.quantity) THEN last.req.quantity[1]
    ELSE NearestQuantity(last.req.value[1], PassPrice)

PassesCreated == SubSeq(routePasses, Len(last.before.routePasses) + 1, Len(routePasses))

----------------------------------------------------------------------------
(* Dry runs                                                                *)

DryRunCalled == PriceCalled /\ last.req.dryRun

\* what a line says apart from the id of the row it is about
LineAmounts(l) ==
    [itemType |-> l.itemType, debit |-> l.debit, credit |-> l.credit,
     companyId |-> l.companyId]

\* the outcome of the same call on the same data when it is not a dry run
NonDryRun ==
    IF last.op = "prepareTicketSale"
        THEN prepareTicketSale([last.req EXCEPT !.dryRun = FALSE], last.now, DB)
        ELSE purchaseRoutePass([last.req EXCEPT !.dryRun = FALSE], DB)

\* C22: a dry run of purchaseRoutePass or prepareTicketSale creates no
\* RoutePass, Ticket or Transaction row and changes none, records no undo
\* function and calls no gateway; it returns the transaction that the same
\* call would build on the same data when not a dry run: it ends as that call
\* ends, with the same items of the same amounts, and comes to the same payment.
C22_DryRun ==
    DryRunCalled =>
        /\ Len(tickets) = last.before.tickets
        /\ routePasses = last.before.routePasses
        /\ Len(txns) = last.before.txns
        /\ last.undo = << >>
        /\ charges = << >>
        /\ payments = << >>
        /\ last.res = NonDryRun.res
        /\ SeqMap(LineAmounts, last.lines) = SeqMap(LineAmounts, NonDryRun.lines)
        /\ last.due = NonDryRun.due

\* a dry run of a sale of two trips to a user with a valid route pass, with a
\* promotion: it returned the discounts and the payment and left the pass valid
C22_Witness ==
    /\ DryRunCalled
    /\ last.op = "prepareTicketSale"
    /\ last.res.status = "ok"
    /\ last.req.applyRoutePass
    /\ Len(LinesOfType("ticketSale")) = 2
    /\ Len(LinesOfType("discount")) >= 2
    /\ LinesOfType("payment") # << >>
    /\ \E p \in 1..Len(routePasses) : routePasses[p].status = "valid"
    /\ NonDryRun.db.routePasses # routePasses

----------------------------------------------------------------------------
(* The order of the steps of prepareTicketSale                             *)

\* the steps of a sale that goes through, in the order of the code
SaleSteps ==
    <<"init", "checks">>
        \o (IF last.req.applyRoutePass THEN <<"routePass">> ELSE << >>)
        \o (IF last.req.promoCode # None THEN <<"promo">> ELSE << >>)
        \o <<"absorb", "finalize", "expectedPrice", "build">>

IsPrefix(s, t) == Len(s) <= Len(t) /\ s = SubSeq(t, 1, Len(s))

LastStep == last.steps[Len(last.steps)]

\* the discount lines of redeemed route passes carry the id of the pass
PassDiscount(l) == l.itemType = "discount" /\ l.itemId # 0

\* C23: the steps of one prepareTicketSale are taken in this order: the
\* builder's init with the pending tickets, the booking checks, the route
\* passes (only with applyRoutePass), the promotion (only with a promo code),
\* the absorbing of a small payment, the payment, the expected price, the
\* build.  A sale returns only after all of them; a step that fails is the
\* last one taken, and then nothing is returned and no ticket, route pass or
\* transaction of the call is left.  The discounts of route passes come
\* before that of the promotion, and every discount before the payment.
C23_StepOrder ==
    SaleCalled =>
        /\ last.steps # << >>
        /\ IsPrefix(last.steps, SaleSteps)
        /\ last.res.status = "ok" => last.steps = SaleSteps
        /\ last.res.status # "ok" =>
               /\ last.lines = << >>
               /\ last.undo = << >>
               /\ Len(txns) = last.before.txns
               /\ Len(tickets) = last.before.tickets
               /\ routePasses = last.before.routePasses
        /\ last.res.status = "PromoError" => LastStep = "promo"
        /\ PriceChanged => LastStep = "expectedPrice"
        /\ (last.res.status # "ok" /\ LastStep = "checks") => last.due = None
        /\ \A i, j \in 1..Len(last.lines) :
               /\ (PassDiscount(last.lines[j]) /\ last.lines[i].itemType = "discount"
                      /\ ~PassDiscount(last.lines[i])) => j < i
               /\ (last.lines[i].itemType = "discount"
                      /\ last.lines[j].itemType = "payment") => i < j

\* a sale with a redeemable route pass and an unknown promotion code: it
\* failed at the promotion, after the route pass, and the pass is still valid
C23_Witness ==
    /\ SaleCalled
    /\ last.res.status = "PromoError"
    /\ last.steps = <<"init", "checks", "routePass", "promo">>
    /\ ~last.req.dryRun
    /\ \E p \in 1..Len(routePasses) :
           routePasses[p].status = "valid" /\ routePasses[p].userId = 1

----------------------------------------------------------------------------
(* purchaseRoutePass step by step: the build and the postTransactionHook    *)
(*                                                                         *)
(* fn is the call: its options, where it is (pc), how far tb.build has got, *)
(* and what became of options.postTransactionHook.  routePasses and txns    *)
(* are the committed tables; fn.working is what the database transaction    *)
(* of the call sees.                                                       *)

\* options.postTransactionHook: not given, a function that returns, a
\* function that raises
Hooks == {"none", "returns", "raises"}

HookRequests ==
    [userId : {1, 2}, tag : {PassTag}, companyId : {1}, promoCode : {None},
     quantity : {Some(1), Some(2)}, value : {None}, dryRun : BOOLEAN,
     expectedPrice : {None, Dollars(5, 0), Dollars(10, 0)}]

InitHook ==
    /\ val = ValIdle
    /\ win = WinIdle
    /\ tickets = << >>
    /\ routePasses = << >>
    /\ txns = << >>
    /\ last = LastIdle
    /\ payments = << >>
    /\ charges = << >>
    /\ env = << >>
    /\ fn \in {[name |-> "purchaseRoutePass", req |-> r, hook |-> h, pc |-> "called",
                build |-> "none", hookCalls |-> 0, hookAt |-> None, hookEnd |-> "none",
                working |-> [tickets |-> << >>, routePasses |-> << >>, txns |-> << >>],
                final |-> [tickets |-> << >>, routePasses |-> << >>, txns |-> << >>],
                res |-> None] :
                   r \in HookRequests, h \in Hooks}

\* the call up to the end of its synchronous run: the passes are created, the
\* payment and the expected price settled, tb.build(...) is called and not
\* awaited, and the hook, when there is one, is called with the database
\* transaction.  build has then got as far as its first database write; in a
\* dry run it has nothing to write and is done.
PurchaseToHook ==
    /\ fn.name = "purchaseRoutePass"
    /\ fn.pc = "called"
    /\ \E out \in {purchaseRoutePass(fn.req, DB)} :
           IF out.res.status # "ok"
               THEN fn' = [fn EXCEPT !.pc = "rolledBack", !.res = Some(out.res)]
               ELSE fn' = [fn EXCEPT
                              !.pc = "inTransaction",
                              !.build = IF fn.req.dryRun THEN "done" ELSE "started",
                              !.working = [tickets |-> tickets,
                                           routePasses |-> out.db.routePasses,
                                           txns |-> txns],
                              !.final = out.db,
                              !.hookCalls = IF fn.hook # "none" THEN @ + 1 ELSE @,
                              !.hookAt = IF fn.hook # "none"
                                             THEN Some(IF fn.req.dryRun THEN "done" ELSE "started")
                                             ELSE None,
                              !.hookEnd = IF fn.hook # "none" THEN "running" ELSE "none"]
    /\ UNCHANGED <<val, win, tickets, routePasses, txns, last, payments, charges, env>>

\* build writes the transaction and its items
BuildPersists ==
    /\ fn.name = "purchaseRoutePass"
    /\ fn.pc = "inTransaction"
    /\ fn.build = "started"
    /\ fn' = [fn EXCEPT !.build = "persisted", !.working.txns = fn.final.txns]
    /\ UNCHANGED <<val, win, tickets, routePasses, txns, last, payments, charges, env>>

\* build runs the builder's postTransactionHooks (_saveChangesToRoutePasses)
BuildRunsHooks ==
    /\ fn.name = "purchaseRoutePass"
    /\ fn.pc = "inTransaction"
    /\ fn.build = "persisted"
    /\ fn' = [fn EXCEPT !.build = "done", !.working = fn.final]
    /\ UNCHANGED <<val, win, tickets, routePasses, txns, last, payments, charges, env>>

\* build goes on after the database transaction was rolled back: its next
\* write fails
BuildFails ==
    /\ fn.name = "purchaseRoutePass"
    /\ fn.pc = "rolledBack"
    /\ fn.build \in {"started", "persisted"}
    /\ fn' = [fn EXCEPT !.build = "failed"]
    /\ UNCHANGED <<val, win, tickets, routePasses, txns, last, payments, charges, env>>

\* await options.postTransactionHook(transaction) returns
HookReturns ==
    /\ fn.name = "purchaseRoutePass"
    /\ fn.pc = "inTransaction"
    /\ fn.hookEnd = "running"
    /\ fn.hook = "returns"
    /\ fn' = [fn EXCEPT !.hookEnd = "returned"]
    /\ UNCHANGED <<val, win, tickets, routePasses, txns, last, payments, charges, env>>

\* await options.postTransactionHook(transaction) raises: the callback of
\* db.transaction rejects and the database transaction is rolled back
HookRaises ==
    /\ fn.name = "purchaseRoutePass"
    /\ fn.pc = "inTransaction"
    /\ fn.hookEnd = "running"
    /\ fn.hook = "raises"
    /\ fn' = [fn EXCEPT !.hookEnd = "raised", !.pc = "rolledBack", !.working = DB,
                        !.res = Some(Thrown("Error", "postTransactionHook"))]
    /\ UNCHANGED <<val, win, tickets, routePasses, txns, last, payments, charges, env>>

\* return txn: the callback resolves once build has, and the database
\* transaction commits
CommitPurchase ==
    /\ fn.name = "purchaseRoutePass"
    /\ fn.pc = "inTransaction"
    /\ fn.build = "done"
    /\ fn.hookEnd \in {"none", "returned"}
    /\ fn' = [fn EXCEPT !.pc = "committed", !.res = Some(Passed)]
    /\ routePasses' = fn.working.routePasses
    /\ txns' = fn.working.txns
    /\ UNCHANGED <<val, win, tickets, last, payments, charges, env>>

NextHook ==
    \/ PurchaseToHook
    \/ BuildPersists
    \/ BuildRunsHooks
    \/ BuildFails
    \/ HookReturns
    \/ HookRaises
    \/ CommitPurchase

SpecHook == InitHook /\ [][NextHook]_vars

\* C24: the optional postTransactionHook of purchaseRoutePass is called
\* exactly once, after build has finished writing the transaction and running
\* its post-transaction hooks and before the database transaction commits;
\* when the hook raises, the database transaction is rolled back and no
\* RoutePass row or Transaction of the purchase is left.
C24_AsStated ==
    fn.name = "purchaseRoutePass" =>
        /\ fn.hookCalls <= 1
        /\ (fn.pc = "committed" /\ fn.hook # "none") =>
               /\ fn.hookCalls = 1
               /\ fn.hookEnd = "returned"
        /\ fn.hookAt # None => fn.hookAt[1] = "done"
        /\ fn.hookEnd = "raised" =>
               /\ fn.pc = "rolledBack"
               /\ routePasses = << >>
               /\ txns = << >>

----------------------------------------------------------------------------
(* Bookings and their undo                                                 *)

\* the caller of a booking runs the undo function it was given
UndoBooking ==
    /\ last.op \in {"prepareTicketSale", "purchaseRoutePass"}
    /\ last.res.status = "ok"
    /\ \E db \in {RunUndoFunctions(last.undo, DB)} :
           /\ tickets' = db.tickets
           /\ routePasses' = db.routePasses
           /\ txns' = db.txns
    /\ last' = [op |-> "undo", of |-> last.op, req |-> last.req, prior |-> last.prior,
                booked |-> [tickets |-> tickets, routePasses |-> routePasses],
                res |-> Passed]
    /\ UNCHANGED <<val, win, fn, payments, charges, env>>

\* the bookings that are undone: sales of one or two trips with and without
\* route passes and promotion, and purchases of one or two passes
UndoSaleCalls ==
    {[req |-> SaleRequest(t, DefaultChecks, p, a, FALSE, TRUE, None), now |-> Times.early] :
        t \in {<<Order(1, 1, 11, 12)>>, <<Order(1, 2, 21, 22)>>,
               <<Order(1, 1, 11, 12), Order(1, 2, 21, 22)>>},
        p \in {None, Some("TWENTY")}, a \in BOOLEAN}

UndoPassRequests ==
    [userId : {1}, tag : {PassTag}, companyId : {1}, promoCode : {None},
     quantity : {Some(1), Some(2)}, value : {None}, dryRun : {FALSE},
     expectedPrice : {None}]

BookTickets ==
    \E call \in UndoSaleCalls :
        /\ last.op = "none"
        /\ Len(tickets) + Len(call.req.trips) <= MaxTickets
        /\ \E out \in {prepareTicketSale(call.req, call.now, DB)} :
               /\ tickets' = out.db.tickets
               /\ routePasses' = out.db.routePasses
               /\ txns' = out.db.txns
               /\ last' = [op |-> "prepareTicketSale", req |-> call.req, now |-> call.now,
                           res |-> out.res, steps |-> out.steps, lines |-> out.lines,
                           undo |-> out.undo, due |-> out.due,
                           prior |-> [tickets |-> tickets, routePasses |-> routePasses]]
        /\ UNCHANGED <<val, win, fn, payments, charges, env>>

BookPasses ==
    \E req \in UndoPassRequests :
        /\ last.op = "none"
        /\ \E out \in {purchaseRoutePass(req, DB)} :
               /\ Len(out.db.routePasses) <= MaxPasses
               /\ tickets' = out.db.tickets
               /\ routePasses' = out.db.routePasses
               /\ txns' = out.db.txns
               /\ last' = [op |-> "purchaseRoutePass", req |-> req, now |-> Times.early,
                           res |-> out.res, steps |-> out.steps, lines |-> out.lines,
                           undo |-> out.undo, due |-> out.due,
                           prior |-> [tickets |-> tickets, routePasses |-> routePasses]]
        /\ UNCHANGED <<val, win, fn, payments, charges, env>>

NextUndo == BookTickets \/ BookPasses \/ UndoBooking \/ ReturnToCaller

SpecUndo == Init /\ [][NextUndo]_vars

BookingUndone == last.op = "undo" /\ last.of \in {"prepareTicketSale", "purchaseRoutePass"}

\* C25: after a booking (prepareTicketSale, with or without route passes
\* redeemed, or purchaseRoutePass) and the run of the undo function it
\* returned, every Ticket and RoutePass that was there before the booking has
\* the status it had before it; a route pass that the booking took from valid
\* to void is valid again.  The rows the booking created are failed.
C25_UndoBooking ==
    BookingUndone =>
        /\ Len(tickets) = Len(last.booked.tickets)
        /\ Len(routePasses) = Len(last.booked.routePasses)
        /\ \A i \in 1..Len(last.prior.tickets) :
               tickets[i].status = last.prior.tickets[i].status
        /\ \A p \in 1..Len(last.prior.routePasses) :
               routePasses[p].status = last.prior.routePasses[p].status
        /\ \A i \in (Len(last.prior.tickets) + 1)..Len(tickets) :
               tickets[i].status = "failed"
        /\ \A p \in (Len(last.prior.routePasses) + 1)..Len(routePasses) :
               routePasses[p].status = "failed"

\* a sale that redeemed a valid route pass was undone while the user held a
\* ticket from before: the pass was void and is valid again, the ticket of
\* the sale is failed and the earlier ticket is as it was
C25_Witness ==
    /\ BookingUndone
    /\ last.of = "prepareTicketSale"
    /\ \E p \in 1..Len(last.prior.routePasses) :
           /\ last.prior.routePasses[p].status = "valid"
           /\ last.booked.routePasses[p].status = "void"
           /\ routePasses[p].status = "valid"
    /\ Len(last.prior.tickets) = 1
    /\ last.prior.tickets[1].status = "valid"
    /\ Len(tickets) = 2
    /\ last.booked.tickets[2].status = "valid"
    /\ tickets[2].status = "failed"

----------------------------------------------------------------------------
(* Concurrent ticket sales                                                 *)
(*                                                                         *)
(* Each sale runs in a database transaction of its own at REPEATABLE READ: *)
(* all it reads is the database as committed when it began, with its own   *)
(* writes; what it wrote is seen by the others when it commits.  tickets   *)
(* and txns are the committed tables, fn.procs the sales under way.  Every *)
(* sale has all three checks enabled.                                      *)

Procs == {1, 2}

ConcurrentCalls ==
    {[req |-> SaleRequest(t, DefaultChecks, None, FALSE, FALSE, TRUE, None), now |-> Times.early] :
        t \in {<<Order(1, 1, 11, 12)>>, <<Order(2, 1, 11, 12)>>, <<Order(1, 2, 21, 22)>>,
               <<Order(2, 2, 21, 22)>>, <<Order(1, 1, 11, 12), Order(1, 2, 21, 22)>>}}

ProcIdle == [pc |-> "idle"]

InitSales ==
    /\ val = ValIdle
    /\ win = WinIdle
    /\ tickets = << >>
    /\ routePasses = << >>
    /\ txns = << >>
    /\ last = LastIdle
    /\ payments = << >>
    /\ charges = << >>
    /\ env = << >>
    /\ fn = [name |-> "sales", procs |-> [p \in Procs |-> ProcIdle]]

\* the tickets written by the sales under way and not committed
TicketsUnderWay ==
    SumSeq([p \in 1..Cardinality(Procs) |->
               IF fn.procs[p].pc = "built" THEN Len(fn.procs[p].tickets) ELSE 0])

\* a line of a transaction whose ticket got the id `id + by` at the insert
Renumbered(l, by) ==
    IF l.itemType = "ticketSale" THEN [l EXCEPT !.itemId = @ + by] ELSE l

\* a sale begins and runs to the end of prepareTicketSale on the database as
\* committed now
SaleRuns ==
    \E p \in Procs, call \in ConcurrentCalls :
        /\ fn.name = "sales"
        /\ fn.procs[p].pc = "idle"
        /\ Len(tickets) + TicketsUnderWay + Len(call.req.trips) <= MaxTickets
        /\ \E out \in {prepareTicketSale(call.req, call.now, DB)} :
               fn' = [fn EXCEPT !.procs[p] =
                         IF out.res.status # "ok"
                             THEN [pc |-> "failed", call |-> call, res |-> out.res]
                             ELSE [pc |-> "built", call |-> call, res |-> out.res,
                                   began |-> Len(tickets),
                                   tickets |-> SubSeq(out.db.tickets, Len(tickets) + 1,
                                                      Len(out.db.tickets)),
                                   txn |-> out.db.txns[Len(out.db.txns)]]]
        /\ UNCHANGED <<val, win, tickets, routePasses, txns, last, payments, charges, env>>

\* the database transaction of a sale that was built commits
SaleCommits ==
    \E p \in Procs :
        /\ fn.name = "sales"
        /\ fn.procs[p].pc = "built"
        /\ tickets' = tickets \o fn.procs[p].tickets
        /\ txns' = Append(txns,
                          [fn.procs[p].txn EXCEPT
                              !.items = [i \in 1..Len(@) |->
                                            Renumbered(@[i], Len(tickets) - fn.procs[p].began)]])
        /\ fn' = [fn EXCEPT !.procs[p] = ProcIdle]
        /\ UNCHANGED <<val, win, routePasses, last, payments, charges, env>>

\* the database transaction of a sale that threw is rolled back
SaleRollsBack ==
    \E p \in Procs :
        /\ fn.name = "sales"
        /\ fn.procs[p].pc = "failed"
        /\ fn' = [fn EXCEPT !.procs[p] = ProcIdle]
        /\ UNCHANGED <<val, win, tickets, routePasses, txns, last, payments, charges, env>>

NextSales == SaleRuns \/ SaleCommits \/ SaleRollsBack

SpecSales == InitSales /\ [][NextSales]_vars

\* C26: whatever the order in which sales of the same trip run and commit,
\* seatsAvailable of no trip is below 0 in the committed database: the
\* committed tickets of a trip that are pending or valid are never more than
\* its capacity.
C26_AsStated ==
    \A t \in DOMAIN Trips :
        /\ seatsAvailable(t, tickets) >= 0
        /\ Cardinality({i \in 1..Len(tickets) :
                           /\ tickets[i].tripId = t
                           /\ tickets[i].status \in {"valid", "pending"}})
               <= Trips[t].capacity


\* C28: with noDuplicates enabled in every sale, whatever the order in which
\* the sales run and commit, no user holds two committed tickets that are
\* valid or pending for the same trip.
C28_AsStated ==
    \A i, j \in 1..Len(tickets) :
        (/\ i # j
         /\ tickets[i].userId = tickets[j].userId
         /\ tickets[i].tripId = tickets[j].tripId
         /\ tickets[i].status \in {"valid", "pending"})
            => tickets[j].status \notin {"valid", "pending"}

----------------------------------------------------------------------------
(* Concurrent refunds                                                      *)
(*                                                                         *)
(* Each refund runs in a database transaction of its own at READ COMMITTED: *)
(* it reads what is committed when it reads, its update of a row waits for  *)
(* any other transaction that has updated the row and not ended, and its   *)
(* writes made with {transaction} are seen by others when it commits and   *)
(* are dropped when it is rolled back.  tickets, routePasses and txns are  *)
(* the committed tables, fn.procs the refunds under way.                   *)

\* ticket.update({status: "refunded"}, {transaction: t}) with no transaction
TicketStatusUpdateOutsideTransaction(ticketId) ==
    [table |-> "tickets", id |-> ticketId, status |-> "refunded", transaction |-> FALSE]

\* ticket.update({status: "refunded"}, {transaction: t})
TicketStatusUpdate(ticketId) ==
    [table |-> "tickets", id |-> ticketId, status |-> "refunded", transaction |-> TRUE]

\* routePass.update({status: "refunded"}, {transaction})
RoutePassStatusUpdate(routePassId) ==
    [table |-> "routePasses", id |-> routePassId, status |-> "refunded", transaction |-> TRUE]

\* a status update carried out on the tables
Written(w, db) ==
    IF w.table = "tickets"
        THEN [db EXCEPT !.tickets[w.id].status = w.status]
        ELSE [db EXCEPT !.routePasses[w.id].status = w.status]

\* the database the refunds start from: user 1 has bought a ticket of trip 2
\* for 10.00 (ticket 1, transaction 1) and a route pass for 5.00 (pass 1,
\* transaction 2)
SoldDB ==
    LET sale == prepareTicketSale(
                    SaleRequest(<<Order(1, 2, 21, 22)>>, DefaultChecks, None, FALSE, FALSE, TRUE,
                                None),
                    Times.early, [tickets |-> << >>, routePasses |-> << >>, txns |-> << >>])
    IN  purchaseRoutePass([userId |-> 1, tag |-> PassTag, companyId |-> 1, promoCode |-> None,
                           quantity |-> Some(1), value |-> None, dryRun |-> FALSE,
                           expectedPrice |-> None],
                          sale.db).db

\* the refunds asked for: ticket 1 for its worth and for less, by an admin of
\* the company or not; pass 1 of item 1 of transaction 2
ConcurrentRefunds ==
    {[kind |-> "ticket", id |-> 1, req |-> [ticketId |-> 1, targetAmt |-> a],
      credentials |-> b] : a \in {Amt(10, 0), Amt(7, 0)}, b \in {[refund |-> {}], [refund |-> {1}]}}
    \cup
    {[kind |-> "routePass", id |-> 1,
      req |-> [transactionId |-> 2, item |-> 1, routePassId |-> 1],
      credentials |-> [refund |-> {1}]]}

InitRefunds ==
    /\ val = ValIdle
    /\ win = WinIdle
    /\ last = LastIdle
    /\ payments = << >>
    /\ charges = << >>
    /\ env = << >>
    /\ \E ticketStatus \in {"valid", "void"}, passStatus \in {"valid", "expired"} :
           /\ tickets = [SoldDB.tickets EXCEPT ![1].status = ticketStatus]
           /\ routePasses = [SoldDB.routePasses EXCEPT ![1].status = passStatus]
    /\ txns = SoldDB.txns
    /\ fn = [name |-> "refunds", procs |-> [p \in Procs |-> ProcIdle]]

\* the row is not locked by another refund: none has updated it and not ended
RowFree(p, kind, id) ==
    \A q \in Procs \ {p} :
        fn.procs[q].pc \in {"written", "built"} =>
            (fn.procs[q].call.kind # kind \/ fn.procs[q].call.id # id)

\* a refund begins and runs up to its status update: the ticket refund up to
\* the check of the refundable amount, the route pass refund up to
\* generateRefundInfo, of a charge with nothing or all of it refunded
RefundChecks ==
    \E p \in Procs, call \in ConcurrentRefunds, spent \in BOOLEAN :
        /\ fn.name = "refunds"
        /\ fn.procs[p].pc \in {"idle", "rolledBack"}
        /\ call.kind = "ticket" => ~spent
        /\ \E out \in {IF call.kind = "ticket"
                           THEN prepareTicketRefund(call.req, call.credentials,
                                                    ChargeOf(DB, call.id, FALSE), DB)
                           ELSE prepareRoutePassRefund(call.req, None,
                                    ChargeOfTxn(DB, call.req.transactionId, spent), DB)} :
               fn' = [fn EXCEPT !.procs[p] =
                         [pc |-> IF out.res.status = "ok" THEN "checked" ELSE "failed",
                          call |-> call, res |-> out.res, lines |-> out.lines,
                          began |-> DB, disturbed |-> FALSE, writes |-> << >>,
                          wrote |-> FALSE]]
        /\ UNCHANGED <<val, win, tickets, routePasses, txns, last, payments, charges, env>>

\* the refund sets the status of its ticket or route pass to refunded
RefundWrites ==
    \E p \in Procs :
        /\ fn.name = "refunds"
        /\ fn.procs[p].pc = "checked"
        /\ RowFree(p, fn.procs[p].call.kind, fn.procs[p].call.id)
        /\ \E w \in {IF fn.procs[p].call.kind = "ticket"
                         THEN TicketStatusUpdate(fn.procs[p].call.id)
                         ELSE RoutePassStatusUpdate(fn.procs[p].call.id)} :
               IF w.transaction
                   THEN /\ fn' = [fn EXCEPT !.procs[p].pc = "written",
                                            !.procs[p].wrote = TRUE,
                                            !.procs[p].writes = <<w>>]
                        /\ UNCHANGED <<tickets, routePasses>>
                   ELSE /\ fn' = [fn EXCEPT !.procs[p].pc = "written",
                                            !.procs[p].wrote = TRUE]
                        /\ tickets' = Written(w, DB).tickets
                        /\ routePasses' = Written(w, DB).routePasses
        /\ UNCHANGED <<val, win, txns, last, payments, charges, env>>

\* what follows the status update: for a ticket generateRefundInfo, of a
\* charge with nothing or all of it refunded; then Payment.refund and build,
\* whose writes the database takes or rejects
RefundBuilds ==
    \E p \in Procs, spent \in BOOLEAN, answer \in {"ok", "rejected"} :
        /\ fn.name = "refunds"
        /\ fn.procs[p].pc = "written"
        /\ fn.procs[p].call.kind = "routePass" => ~spent
        /\ spent => answer = "ok"
        /\ \E info \in {IF fn.procs[p].call.kind = "ticket"
                            THEN generateRefundInfo(
                                     ChargeOf(DB, fn.procs[p].call.id, spent),
                                     fn.procs[p].call.req.targetAmt, None).res
                            ELSE Passed} :
               fn' = [fn EXCEPT
                         !.procs[p].pc = IF info.status = "ok" /\ answer = "ok"
                                             THEN "built" ELSE "failed",
                         !.procs[p].res = IF info.status # "ok" THEN info
                                          ELSE IF answer # "ok"
                                              THEN Thrown("SequelizeDatabaseError", "rejected")
                                          ELSE Passed]
        /\ UNCHANGED <<val, win, tickets, routePasses, txns, last, payments, charges, env>>

\* the refunds under way other than p have seen another transaction commit
Disturbed(procs, p) ==
    [q \in Procs |->
        IF q # p /\ procs[q].pc # "idle" THEN [procs[q] EXCEPT !.disturbed = TRUE]
        ELSE procs[q]]

\* the database transaction of a refund that was built commits
RefundCommits ==
    \E p \in Procs :
        /\ fn.name = "refunds"
        /\ fn.procs[p].pc = "built"
        /\ \E db \in {IF fn.procs[p].writes = << >> THEN DB
                      ELSE Written(fn.procs[p].writes[1], DB)} :
               /\ tickets' = db.tickets
               /\ routePasses' = db.routePasses
        /\ txns' = Append(txns, [type |-> "refundPayment", committed |-> TRUE,
                                 items |-> fn.procs[p].lines])
        /\ fn' = [fn EXCEPT !.procs = Disturbed([fn.procs EXCEPT ![p] = ProcIdle], p)]
        /\ UNCHANGED <<val, win, last, payments, charges, env>>

\* the database transaction of a refund that threw is rolled back
RefundRollsBack ==
    \E p \in Procs :
        /\ fn.name = "refunds"
        /\ fn.procs[p].pc = "failed"
        /\ fn' = [fn EXCEPT !.procs[p].pc = "rolledBack", !.procs[p].writes = << >>]
        /\ UNCHANGED <<val, win, tickets, routePasses, txns, last, payments, charges, env>>

NextRefunds ==
    RefundChecks \/ RefundWrites \/ RefundBuilds \/ RefundCommits \/ RefundRollsBack

SpecRefunds == InitRefunds /\ [][NextRefunds]_vars

\* the ticketRefund items of a ticket in the committed transactions
CommittedRefundItems(ticketId) ==
    SumSeq([i \in 1..Len(txns) |->
               IF txns[i].committed
                   THEN Len(SelectSeq(txns[i].items,
                                      LAMBDA l : l.itemType = "ticketRefund"
                                                     /\ l.itemId = ticketId))
                   ELSE 0])

\* C27: whatever the order in which two prepareTicketRefund calls for the same
\* ticket run, at most one of them commits a refund: the committed ledger
\* never holds two ticketRefund items of the ticket, and the committed refund
\* debits of the ticket are never more than ticketSale.credit less the
\* ticket's discountValue.
C27_AsStated ==
    \A id \in SoldTickets(txns) :
        /\ CommittedRefundItems(id) <= 1
        /\ PreviouslyRefunded(txns, id) <= WorthOf(id, tickets, txns)


\* C29: when prepareTicketRefund or prepareRoutePassRefund fails at any step,
\* a failure of generateRefundInfo or of build after the status was set to
\* refunded included, its database transaction is rolled back and the
\* committed tickets, route passes and ledger are exactly as they were when
\* the call began (no other refund having committed since).
C29_Rollback ==
    fn.name = "refunds" =>
        \A p \in Procs :
            (fn.procs[p].pc = "rolledBack" /\ ~fn.procs[p].disturbed) =>
                /\ tickets = fn.procs[p].began.tickets
                /\ routePasses = fn.procs[p].began.routePasses
                /\ txns = fn.procs[p].began.txns
                /\ fn.procs[p].res.status # "ok"

\* a ticket refund that failed in generateRefundInfo and a route pass refund
\* whose build the database rejected, both after the status was set to
\* refunded, were rolled back: the ticket and the pass are valid and the
\* ledger holds the two purchases only
C29_Witness ==
    /\ fn.name = "refunds"
    /\ \E p, q \in Procs :
           /\ fn.procs[p].pc = "rolledBack"
           /\ fn.procs[p].call.kind = "ticket"
           /\ fn.procs[p].wrote
           /\ fn.procs[p].res.status \notin {"ok", "SequelizeDatabaseError"}
           /\ fn.procs[q].pc = "rolledBack"
           /\ fn.procs[q].call.kind = "routePass"
           /\ fn.procs[q].wrote
           /\ fn.procs[q].res.status = "SequelizeDatabaseError"
    /\ tickets[1].status = "valid"
    /\ routePasses[1].status = "valid"
    /\ Len(txns) = 2

----------------------------------------------------------------------------
(* Authorisation of ticket refunds                                         *)

\* the company of the route of the trip of the ticket asked for
RefundCompany == Trips[tickets[last.req.ticketId].tripId].route.transportCompanyId

\* the caller holds the refund role for the company of the ticket's route
RefundAuthorised ==
    /\ last.req.ticketId \in 1..Len(tickets)
    /\ RefundCompany \in last.credentials.refund

\* C30: in prepareTicketRefund nothing happens to the ticket's status or the
\* ledger, and nothing is asked of the gateway, unless assertAdminRole has
\* passed for the company of the ticket's route.  A call by someone without
\* the refund role for that company fails, leaves the ticket's status as it
\* was and no refund transaction, and fails the same way whatever the gateway
\* would report of the charge: for a ticket that is valid or void, with an
\* auth error.
C30_AuthFirst ==
    (TicketRefundCalled /\ ~RefundAuthorised) =>
        /\ last.res.status # "ok"
        /\ last.lines = << >>
        /\ last.undo = << >>
        /\ Len(txns) = last.before.txns
        /\ last.req.ticketId \in 1..Len(tickets) =>
               tickets[last.req.ticketId].status = last.prior
        /\ last.res = prepareTicketRefund(last.req, last.credentials,
                                          ChargeOf(DB, last.req.ticketId, ~last.spent), DB).res
        /\ (/\ last.req.ticketId \in 1..Len(tickets)
            /\ last.req.targetAmt # 0
            /\ last.prior \in {"valid", "void"})
               => last.res.status = "AuthError"

\* an admin of company 1 asked for the refund, at its worth, of a valid ticket
\* of a trip of company 2 whose charge the gateway reports as refunded: auth
\* error, and the ticket is still valid
C30_Witness ==
    /\ TicketRefundCalled
    /\ last.credentials.refund = {1}
    /\ last.req.ticketId \in 1..Len(tickets)
    /\ RefundCompany = 2
    /\ last.spent
    /\ last.res.status = "AuthError"
    /\ tickets[last.req.ticketId].status = "valid"
    /\ PreviouslyRefunded(txns, last.req.ticketId) = 0

----------------------------------------------------------------------------
(* chargeSale and the gateway: when the card is charged                    *)

\* the lines of a sale of `price`, discounted to `due`, paid by nPayment
\* payment items of `due` each and transferred by nTransfer transfer items
\* to the company
ChargedLines(price, due, nPayment, nTransfer, companyId) ==
    <<Line("ticketSale", 1, 0, price, 0)>>
        \o (IF due < price THEN <<Line("discount", 0, price - due, 0, 0)>> ELSE << >>)
        \o [i \in 1..nPayment |-> Line("payment", 0, due, 0, 0)]
        \o [i \in 1..nTransfer |-> Line("transfer", 0, 0, due, companyId)]

ChargedTxn(lines) == [type |-> "ticketPurchase", committed |-> TRUE, items |-> lines]

\* table Transaction: a sale of 5.00 paid in full; a sale of 5.00 discounted
\* to nothing, with its payment item of 0.00; sales with two
\* payment items, two transfer items, no payment item, no transfer item;
\* a sale of the company without an account at the gateway
HeldTxns ==
    <<ChargedTxn(ChargedLines(Amt(5, 0), Amt(5, 0), 1, 1, 1)),
      ChargedTxn(ChargedLines(Amt(5, 0), 0, 1, 1, 1)),
      ChargedTxn(ChargedLines(Amt(5, 0), Amt(5, 0), 2, 1, 1)),
      ChargedTxn(ChargedLines(Amt(5, 0), Amt(5, 0), 1, 2, 1)),
      ChargedTxn(ChargedLines(Amt(5, 0), Amt(5, 0), 0, 1, 1)),
      ChargedTxn(ChargedLines(Amt(5, 0), Amt(5, 0), 1, 0, 1)),
      ChargedTxn(ChargedLines(Amt(5, 0), Amt(5, 0), 1, 1, 2))>>

\* the calls of chargeSale: for each transaction, held with its amounts as
\* strings or as numbers, with a token, with a saved card, or with both,
\* charged or declined by the gateway
HeldCalls ==
    {[options |-> [GoodOptions(t, 1) EXCEPT !.amounts = held, !.stripeToken = card.stripeToken,
                                            !.saved = card.saved],
      answer |-> a, database |-> [first |-> TRUE, second |-> TRUE]] :
        t \in 1..Len(HeldTxns), held \in {"decimal", "number"},
        card \in {[stripeToken |-> Some("tok_1"), saved |-> FALSE],
                  [stripeToken |-> None, saved |-> TRUE],
                  [stripeToken |-> Some("tok_1"), saved |-> TRUE]},
        a \in {"ok", "declined"}}

InitHeld ==
    /\ val = ValIdle
    /\ win = WinIdle
    /\ last = LastIdle
    /\ fn = FnIdle
    /\ tickets = << >>
    /\ routePasses = << >>
    /\ txns = HeldTxns
    /\ payments = [i \in 1..Len(HeldTxns) |-> NewPayment]
    /\ charges = << >>
    /\ env = Some(<<"t", "1">>)

ChargeHeld ==
    \E call \in HeldCalls :
        /\ last.op = "none"
        /\ \E out \in {chargeSale(call.options, call.answer, call.database, txns, payments,
                                  charges, env)} :
               /\ payments' = out.payments
               /\ charges' = out.gateway
               /\ last' = [op |-> "chargeSale", req |-> call, res |-> out.res,
                           sent |-> out.sent, chargesBefore |-> Len(charges)]
        /\ UNCHANGED <<val, win, tickets, routePasses, txns, fn, env>>

NextHeld == ChargeHeld \/ ReturnToCaller

SpecHeld == InitHeld /\ [][NextHeld]_vars

\* the transaction of the call has exactly one payment item and exactly one
\* transfer item
OnePaymentOneTransfer(transaction) ==
    /\ Len(ItemsOf(transaction, "payment")) = 1
    /\ Len(ItemsOf(transaction, "transfer")) = 1

\* the company the transfer item names has a merchant id
HasMerchantId(transaction) ==
    LET companyId == ItemsOf(transaction, "transfer")[1].companyId
    IN  /\ companyId \in 1..Len(TransportCompanies)
        /\ TransportCompanies[companyId].stripeCompanyId # None

PaymentDebit(transaction) == ItemsOf(transaction, "payment")[1].debit

\* C31 as stated: chargeSale calls chargeCard at most once per invocation,
\* and not at all when the transaction does not have exactly one payment
\* item and exactly one transfer item, when the company has no merchant id,
\* or when the payment debit is zero; a transaction whose payment debit is
\* zero never produces a charge at the gateway.
C31_AsStated ==
    [][(last'.op = "chargeSale" /\ last.op = "none" /\ last'.req.options.transaction # None) =>
          LET transaction == txns[last'.req.options.transaction[1]]
          IN  /\ Len(last'.sent) <= 1
              /\ Len(charges') <= Len(charges) + 1
              /\ (\/ ~OnePaymentOneTransfer(transaction)
                  \/ ~HasMerchantId(transaction)
                  \/ PaymentDebit(transaction) = 0)
                     => /\ last'.sent = None
                        /\ charges' = charges]_vars

----------------------------------------------------------------------------
(* The fee schedule of a refund: the isMicro flag from charge to refund    *)

\* the sales charged and refunded: a ticket of 5.00, a ticket of 10.00, both
\* tickets, and a route pass of 5.00 or two
MicroSales ==
    {prepareTicketSale(SaleRequest(t, DefaultChecks, None, FALSE, FALSE, TRUE, None),
                       Times.early,
                       [tickets |-> << >>, routePasses |-> << >>, txns |-> << >>]).db :
        t \in {<<Order(1, 1, 11, 12)>>, <<Order(1, 2, 21, 22)>>,
               <<Order(1, 1, 11, 12), Order(1, 2, 21, 22)>>}}
    \cup
    {purchaseRoutePass([userId |-> 1, tag |-> PassTag, companyId |-> 1, promoCode |-> None,
                        quantity |-> Some(q), value |-> None, dryRun |-> FALSE,
                        expectedPrice |-> None],
                       [tickets |-> << >>, routePasses |-> << >>, txns |-> << >>]).db :
        q \in {1, 2}}

InitMicro ==
    /\ val = ValIdle
    /\ win = WinIdle
    /\ last = LastIdle
    /\ fn = FnIdle
    /\ charges = << >>
    /\ env = Some(<<"t", "1">>)
    /\ \E db \in MicroSales :
           /\ tickets = db.tickets
           /\ routePasses = db.routePasses
           /\ txns = db.txns
           /\ payments = [i \in 1..Len(db.txns) |-> NewPayment]

\* the sale is charged in one of two sessions
ChargeMicro ==
    \E iat \in {1, 2}, answer \in {"ok", "declined"} :
        /\ last.op = "none"
        /\ \E out \in {chargeSale(GoodOptions(1, iat), answer,
                                  [first |-> TRUE, second |-> TRUE], txns, payments,
                                  charges, env)} :
               /\ payments' = out.payments
               /\ charges' = out.gateway
               /\ last' = [op |-> "chargeSale",
                           req |-> [options |-> GoodOptions(1, iat), answer |-> answer],
                           res |-> out.res, sent |-> out.sent, chargesBefore |-> Len(charges)]
        /\ UNCHANGED <<val, win, tickets, routePasses, txns, fn, env>>

\* what has been given back of the payment of a transaction, in cents
RefundedOf(txnTable, transactionId) ==
    LET Given(txn) ==
            SumSeq(SeqMap(LineDebit,
                          SelectSeq(txn.items,
                                    LAMBDA l : /\ l.itemType \in {"ticketRefund", "routePass"}
                                               /\ l.notes = Some(transactionId))))
    IN  SumSeq([i \in 1..Len(txnTable) |-> Given(txnTable[i])]) \div 10000

\* Payment.retrieveCharge(paymentResource): the charge the gateway made
retrieveCharge(gateway, paymentResource, txnTable, transactionId) ==
    [amount |-> gateway[paymentResource].amount[1],
     amount_refunded |-> RefundedOf(txnTable, transactionId),
     source |-> [country |-> "SG", brand |-> "Visa"]]

\* an administrator of the company refunds a ticket of the sale, once the
\* sale is charged
RefundChargedTicket ==
    \E ticketId \in 1..Len(tickets) :
        /\ last.op = "none"
        /\ payments[1].paymentResource # None
        /\ \E req \in {[ticketId |-> ticketId, targetAmt |-> Trips[tickets[ticketId].tripId].price]},
              charge \in {retrieveCharge(charges, payments[1].paymentResource[1], txns, 1)} :
               \E out \in {prepareTicketRefund(req, [refund |-> {1}], charge, DB)} :
                   /\ tickets' = out.db.tickets
                   /\ routePasses' = out.db.routePasses
                   /\ txns' = out.db.txns
                   /\ last' = [op |-> "prepareTicketRefund", req |-> req, res |-> out.res,
                               charge |-> charge,
                               refundInfo |-> IF out.res.status = "ok" THEN Some(out.refundInfo)
                                              ELSE None]
        /\ UNCHANGED <<val, win, fn, payments, charges, env>>

\* a route pass of the purchase is refunded, once the purchase is charged:
\* the Payment row of the purchase is read for the flag
RefundChargedRoutePass ==
    \E routePassId \in 1..Len(routePasses), item \in 1..Len(txns[1].items) :
        /\ last.op = "none"
        /\ payments[1].paymentResource # None
        /\ txns[1].items[item].itemType = "routePass"
        /\ txns[1].items[item].itemId = routePassId
        /\ \E req \in {[transactionId |-> 1, item |-> item, routePassId |-> routePassId]},
              charge \in {retrieveCharge(charges, payments[1].paymentResource[1], txns, 1)} :
               \E out \in {prepareRoutePassRefund(req, PaymentIsMicro(payments[1]), charge, DB)} :
                   /\ tickets' = out.db.tickets
                   /\ routePasses' = out.db.routePasses
                   /\ txns' = out.db.txns
                   /\ last' = [op |-> "prepareRoutePassRefund", req |-> req, res |-> out.res,
                               charge |-> charge,
                               refundInfo |-> IF out.res.status = "ok" THEN Some(out.refundInfo)
                                              ELSE None]
        /\ UNCHANGED <<val, win, fn, payments, charges, env>>

NextMicro == ChargeMicro \/ RefundChargedTicket \/ RefundChargedRoutePass \/ ReturnToCaller

SpecMicro == InitMicro /\ [][NextMicro]_vars

\* the flag and the fee of a refund are those of the Payment row of the sale
FlagOfPaymentRow(refundInfo, row) ==
    /\ row.options # None
    /\ (refundInfo.isMicro = Some(TRUE)) <=> row.options[1].isMicro
    /\ refundInfo.processingFee
           = generateRefundInfo(refundInfo.charge, refundInfo.amount,
                                Some(row.options[1].isMicro)).processingFee

\* C32 as stated: the isMicro flag a ticket refund passes to
\* generateRefundInfo is the options.isMicro chargeSale recorded on the
\* Payment row of the refunded sale, as the flag of a route-pass refund is,
\* so that both refunds take the processing fee of the charge from the same
\* fee schedule.
C32_AsStated ==
    [][(/\ last.op = "none"
        /\ last'.op \in {"prepareTicketRefund", "prepareRoutePassRefund"}
        /\ last'.res.status = "ok")
           => FlagOfPaymentRow(last'.refundInfo[1], payments[1])]_vars

====
